---- MODULE Spec2Model ----
(***************************************************************************)
(* NetworkDB gossip event handlers (daemon/libnetwork/networkdb/           *)
(* delegate.go): Lamport-clock conflict resolution for node, network and   *)
(* table events, the membership gate of table events, the rebroadcast      *)
(* decision and the watch notifications written to the broadcaster.        *)
(*                                                                         *)
(* Go maps are partial functions (DOMAIN m is the key set, k \in DOMAIN m  *)
(* is the "ok" of a lookup).  Durations are counted in whole seconds.      *)
(***************************************************************************)
EXTENDS Integers, Sequences, FiniteSets, TLC

(* ------------------------------ bounds -------------------------------- *)

\* Lamport times carried by events are 1..MaxLTime (clocks start at 0).
MaxLTime == 2

\* Duplicates of the Create delivered in the create/duplicate/delete scenario.
MaxDup == 2

\* LocalState(join = true) calls: each increments the network clock.
MaxBumps == 1

\* The records of a push-pull payload.
MaxRecords == 2

\* The parts of a compound message.
MaxParts == 2

(* ----------------------------- universe ------------------------------- *)

\* nDB.config.NodeID
LocalNode == "B"

\* NodeName of remote events
RemoteNodes == {"A", "C"}

NetworkIDs == {"N1"}

TableNames == {"T1"}

Keys == {"k1"}

Values == {"v1", "v2"}

\* A nil []byte (WatchEvent.Value / WatchEvent.Prev left unset).
Nil == "nil"

LTimes == 1..MaxLTime

\* nDB.config.reapEntryInterval, in seconds (scaled down; a multiple of 6 so
\* that the integer division of the duration is exact in seconds).
ReapEntryInterval == 12

\* nDB.config.reapNetworkInterval, in seconds (scaled down).
ReapNetworkInterval == 14

\* maxQueueLenBroadcastOnSync (scaled down).
MaxQueueLenBroadcastOnSync == 1

\* TableEvent.ResidualReapTime values: absent (0), exactly one sixth of the
\* interval, and just above one sixth.
ResidualReapTimes == {0, ReapEntryInterval \div 6, (ReapEntryInterval \div 6) + 1}

TableEventTypes == {"Create", "Update", "Delete"}

NetworkEventTypes == {"Join", "Leave"}

NodeEventTypes == {"Join", "Leave"}

\* NodeEvent.Type with the zero value of the enumeration, which the handler's
\* switch leaves to its default branch.
AllNodeEventTypes == {"Invalid", "Join", "Leave"}

\* TableEvent messages that reach handleTableEvent: handleTableMessage has
\* already dropped those generated by the local node.
TableEvents ==
    [LTime : LTimes, NodeName : RemoteNodes, NetworkID : NetworkIDs,
     TableName : TableNames, Key : Keys, Value : Values,
     Type : TableEventTypes, ResidualReapTime : ResidualReapTimes]

\* The TableEvents of the whole-node specification, where they meet node and
\* network events: gossip about one value, as peers in step with this code
\* send it (only a Delete carries a residual reap time, or none when sent by
\* an older engine).  SpecTable delivers all of TableEvents.
GossipTableEvents ==
    {tEvent \in TableEvents :
        /\ tEvent.Value = "v1"
        /\ tEvent.ResidualReapTime # ReapEntryInterval \div 6
        /\ tEvent.Type # "Delete" => tEvent.ResidualReapTime = 0}

NetworkEvents ==
    [LTime : LTimes, NodeName : RemoteNodes \cup {LocalNode},
     NetworkID : NetworkIDs, Type : NetworkEventTypes]

NodeEvents ==
    [LTime : LTimes, NodeName : RemoteNodes, Type : NodeEventTypes]

AllNodeEvents ==
    [LTime : LTimes, NodeName : RemoteNodes, Type : AllNodeEventTypes]

\* The (network, table, key) index of the entry store.
EntryKey(nid, tname, key) == <<nid, tname, key>>

EntryKeys == NetworkIDs \X TableNames \X Keys

EventKey(tEvent) == EntryKey(tEvent.NetworkID, tEvent.TableName, tEvent.Key)

(* ------------------------------- state -------------------------------- *)

VARIABLES
    networkClock,       \* nDB.networkClock
    tableClock,         \* nDB.tableClock
    nodes,              \* node name -> [ltime, state]: nDB.nodes / failedNodes / leftNodes
    networks,           \* nDB.networks: node name -> network id -> [ltime, leaving, reapTime]
    thisNodeNetworks,   \* nDB.thisNodeNetworks: network id -> [ltime, leaving, inSync]
    networkNodes,       \* nDB.networkNodes: network id -> set of node names
    entries,            \* the entry store: EntryKey -> entry
    written,            \* WatchEvents the last handler call wrote to nDB.broadcaster
    last,               \* the last handler call: its name, inputs, locals and result
    maxDelivered,       \* history: per key, the greatest LTime ever delivered to handleTableEvent
    topAdmitted,        \* history: per key, the first delivered event of greatest LTime among those that passed the membership check
    deliveries,         \* history: the network events delivered to handleNetworkEvent, in order of delivery
    lock,               \* holder of nDB's exclusive lock (a caller id, or "free")
    pc,                 \* concurrent callers of handleTableEvent: position
    call,               \* concurrent callers: tEvent, prev, entryPresent
    before,             \* history: per key, the entry (or none) replaced by the latest store mutation
    phase,              \* create/duplicate/delete scenario: position
    scen,               \* create/duplicate/delete scenario: the events chosen
    tm,                 \* handleTableMessage in steps: position and locals of the call
    pp,                 \* the NetworkPushPull the last LocalState call returned
    lsPc,               \* LocalState: position of the call in progress
    lsBefore,           \* history: thisNodeNetworks and networkClock when that call began
    merging,            \* MergeRemoteState: the NetworkPushPull being merged
    mergeAt,            \* MergeRemoteState: position (0: the node event; i: record i)
    heard,              \* history: the node or network event the last handler call was given
    work,               \* handleMessage: the calls still to make for the message received
    received,           \* history: the buffer the last NotifyMsg or MergeRemoteState call was given
    nodeBroadcasts,     \* nDB.nodeBroadcasts: the queued nodeEventMessages
    networkBroadcasts,  \* nDB.networkBroadcasts: the queued networkEventMessages
    tableRebroadcasts,  \* n.tableRebroadcasts: network id -> the queued tableEventMessages
    bulkSyncAckTbl,     \* nDB.bulkSyncAckTbl: node name -> acknowledgment channel
    closed,             \* the acknowledgment channels that have been closed
    sent,               \* the bulkSyncNode calls made: the bulk syncs sent
    wait                \* bulkSyncNode: the caller's wait for the response

vars == <<networkClock, tableClock, nodes, networks, thisNodeNetworks,
          networkNodes, entries, written, last, maxDelivered, topAdmitted,
          deliveries,
          lock, pc, call, before, phase, scen, tm,
          pp, lsPc, lsBefore, merging, mergeAt, heard,
          work, received, nodeBroadcasts, networkBroadcasts, tableRebroadcasts,
          bulkSyncAckTbl, closed, sent, wait>>

storeVars == <<nodes, networks, thisNodeNetworks, networkNodes, entries>>

concVars == <<lock, pc, call, before>>

scenVars == <<phase, scen, tm>>

histVars == <<maxDelivered, topAdmitted, deliveries>>

syncVars == <<pp, lsPc, lsBefore, merging, mergeAt, heard>>

localStateVars == <<pp, lsPc, lsBefore>>

mergeVars == <<merging, mergeAt>>

queueVars == <<nodeBroadcasts, networkBroadcasts, tableRebroadcasts>>

ackVars == <<bulkSyncAckTbl, closed, sent, wait>>

msgVars == <<work, received, queueVars, ackVars>>

(* ------------------------------ helpers ------------------------------- *)

\* An empty Go map
EmptyMap == <<>>

\* make(map[string]*network)
EmptyMapOfNetworks == <<>>

\* m with key k set to v (Go: m[k] = v)
MapPut(m, k, v) == (k :> v) @@ m

Max(a, b) == IF a >= b THEN a ELSE b

\* LamportClock.Witness: raise the clock to the observed time, never lower it.
Witness(clock, ltime) == Max(clock, ltime)

\* nDB.getEntry succeeded (err == nil)
HasEntry(es, tname, nid, key) == EntryKey(nid, tname, key) \in DOMAIN es

\* nDB.getEntry
getEntry(es, tname, nid, key) == es[EntryKey(nid, tname, key)]

\* nDB.createOrUpdateEntry
createOrUpdateEntry(es, nid, tname, key, e) == MapPut(es, EntryKey(nid, tname, key), e)

\* nodes := nDB.networkNodes[nid] (nil when the network id is not a key)
NetworkNodesOf(nn, nid) == IF nid \in DOMAIN nn THEN nn[nid] ELSE {}

(* ------------------- handleTableEvent (delegate.go:142) ----------------- *)

\* The *entry of a failed getEntry: never read by the handler.
NoEntry == [ltime |-> 0, node |-> "", value |-> Nil, deleting |-> FALSE, reapTime |-> 0]

\* Variant of OutOfNetwork: a network being left still takes table events.
OutOfNetworkIgnoringLeaving(tnn, nn, tEvent) ==
    \/ tEvent.NetworkID \notin DOMAIN tnn
    \/ tEvent.NodeName \notin NetworkNodesOf(nn, tEvent.NetworkID)

\* delegate.go:152-167: "I'm out of the network OR the event owner is not
\* anymore part of the network": !ok || network.leaving || !nodePresent
OutOfNetwork(tnn, nn, tEvent) ==
    \/ tEvent.NetworkID \notin DOMAIN tnn
    \/ tnn[tEvent.NetworkID].leaving
    \/ tEvent.NodeName \notin NetworkNodesOf(nn, tEvent.NetworkID)

\* Variant of IsStale: an event with the stored time is not stale.
IsStaleStrict(prev, tEvent) == prev.ltime > tEvent.LTime

\* delegate.go:175: "We have the latest state. Ignore the event since it is stale."
IsStale(prev, tEvent) == prev.ltime >= tEvent.LTime

\* Variant of NewEntry: a delete keeps the reap time its event carries.
NewEntryNoDefault(tEvent) ==
    [ltime    |-> tEvent.LTime,
     node     |-> tEvent.NodeName,
     value    |-> tEvent.Value,
     deleting |-> tEvent.Type = "Delete",
     reapTime |-> tEvent.ResidualReapTime]

\* delegate.go:180-195: the entry built from the event; a delete without a
\* reap time gets the configured entry reap interval.
NewEntry(tEvent) ==
    LET deleting == tEvent.Type = "Delete"
        reapTime == tEvent.ResidualReapTime
    IN  [ltime    |-> tEvent.LTime,
         node     |-> tEvent.NodeName,
         value    |-> tEvent.Value,
         deleting |-> deleting,
         reapTime |-> IF deleting /\ reapTime = 0 THEN ReapEntryInterval ELSE reapTime]

\* Variant of UnknownDeleteRebroadcast: gossip deliveries count as well.
UnknownDeleteRebroadcastAnyPath(isBulkSync, inSync, e) ==
    inSync /\ e.reapTime > ReapEntryInterval \div 6

\* Variant of UnknownDeleteRebroadcast: exactly a sixth left is enough.
UnknownDeleteRebroadcastAtLeast(isBulkSync, inSync, e) ==
    isBulkSync /\ inSync /\ e.reapTime >= ReapEntryInterval \div 6

\* delegate.go:215: the rebroadcast decision of a delete for an unknown entry
UnknownDeleteRebroadcast(isBulkSync, inSync, e) ==
    isBulkSync /\ inSync /\ e.reapTime > ReapEntryInterval \div 6

\* Variant of WatchEvents: a delete tells the value its event carries, and
\* tells it for a tombstone too.
WatchEventsEventValue(tEvent, entryPresent, prev) ==
    LET event == [Table |-> tEvent.TableName, NetworkID |-> tEvent.NetworkID,
                  Key |-> tEvent.Key, Value |-> Nil, Prev |-> Nil]
    IN  CASE tEvent.Type \in {"Create", "Update"} ->
               << [event EXCEPT !.Value = tEvent.Value,
                                !.Prev = IF entryPresent /\ ~prev.deleting
                                         THEN prev.value ELSE Nil] >>
          [] tEvent.Type = "Delete" ->
               IF ~entryPresent THEN <<>>
               ELSE << [event EXCEPT !.Prev = tEvent.Value] >>
          [] OTHER -> << event >>

\* Variant of Rebroadcast: every handled event is rebroadcast.
RebroadcastAlways(network) == TRUE

\* delegate.go:248: return network.inSync
Rebroadcast(network) == network.inSync

\* delegate.go:218-247: the WatchEvents the handler writes to the broadcaster
\* (none after "goto SkipBroadcast").
WatchEvents(tEvent, entryPresent, prev) ==
    LET event == [Table |-> tEvent.TableName, NetworkID |-> tEvent.NetworkID,
                  Key |-> tEvent.Key, Value |-> Nil, Prev |-> Nil]
    IN  CASE tEvent.Type \in {"Create", "Update"} ->
               << [event EXCEPT !.Value = tEvent.Value,
                                !.Prev = IF entryPresent /\ ~prev.deleting
                                         THEN prev.value ELSE Nil] >>
          [] tEvent.Type = "Delete" ->
               IF ~entryPresent \/ prev.deleting THEN <<>>
               ELSE << [event EXCEPT !.Prev = prev.value] >>
          [] OTHER -> << event >>

\* delegate.go:146-249: the handler under nDB.Lock().  The result holds the
\* entry store it leaves, the WatchEvents it wrote, its return value, the
\* local entryPresent and whether it got as far as createOrUpdateEntry.
handleTableEventLocked(tnn, nn, es, tEvent, isBulkSync) ==
    LET entryPresent == HasEntry(es, tEvent.TableName, tEvent.NetworkID, tEvent.Key)
        prev == IF entryPresent
                THEN getEntry(es, tEvent.TableName, tEvent.NetworkID, tEvent.Key)
                ELSE NoEntry
        e == NewEntry(tEvent)
        stored == createOrUpdateEntry(es, tEvent.NetworkID, tEvent.TableName, tEvent.Key, e)
    IN  IF OutOfNetwork(tnn, nn, tEvent)
        THEN [entries |-> es, written |-> <<>>, ret |-> FALSE,
              entryPresent |-> FALSE, applied |-> FALSE]
        ELSE IF entryPresent /\ IsStale(prev, tEvent)
        THEN [entries |-> es, written |-> <<>>, ret |-> FALSE,
              entryPresent |-> TRUE, applied |-> FALSE]
        ELSE IF ~entryPresent /\ tEvent.Type = "Delete"
        THEN [entries |-> stored, written |-> <<>>,
              ret |-> UnknownDeleteRebroadcast(isBulkSync, tnn[tEvent.NetworkID].inSync, e),
              entryPresent |-> FALSE, applied |-> TRUE]
        ELSE [entries |-> stored,
              written |-> WatchEvents(tEvent, entryPresent, prev),
              ret |-> Rebroadcast(tnn[tEvent.NetworkID]),
              entryPresent |-> entryPresent, applied |-> TRUE]

\* Variant of handleTableEvent: the clock witnesses applied events only.
handleTableEventWitnessIfApplied(clock, tnn, nn, es, tEvent, isBulkSync) ==
    LET r == handleTableEventLocked(tnn, nn, es, tEvent, isBulkSync)
    IN  [clock |-> IF r.applied THEN Witness(clock, tEvent.LTime) ELSE clock,
         out |-> r]

\* delegate.go:142-249: tableClock.Witness, then the locked part.
handleTableEvent(clock, tnn, nn, es, tEvent, isBulkSync) ==
    [clock |-> Witness(clock, tEvent.LTime),
     out |-> handleTableEventLocked(tnn, nn, es, tEvent, isBulkSync)]

\* History of the deliveries to handleTableEvent, per key.
MaxDeliveredAfter(tEvent) ==
    [maxDelivered EXCEPT ![EventKey(tEvent)] = Max(@, tEvent.LTime)]

TopAdmittedAfter(tEvent) ==
    LET k == EventKey(tEvent) IN
    IF \/ tEvent.NetworkID \notin DOMAIN thisNodeNetworks
       \/ thisNodeNetworks[tEvent.NetworkID].leaving
       \/ tEvent.NodeName \notin NetworkNodesOf(networkNodes, tEvent.NetworkID)
    THEN topAdmitted
    ELSE IF k \in DOMAIN topAdmitted /\ topAdmitted[k].LTime >= tEvent.LTime
    THEN topAdmitted
    ELSE MapPut(topAdmitted, k, [LTime |-> tEvent.LTime, Value |-> tEvent.Value,
                                 Type |-> tEvent.Type])

NoCall == [op |-> "none", isBulkSync |-> FALSE,
           entryPresent |-> FALSE, applied |-> FALSE, ret |-> FALSE]

\* The call handleTableEvent(&tEvent, isBulkSync) of handleTableMessage
\* (delegate.go:277) in the current state: the table clock and the outcome
\* it leaves.  HandleTableEventStep is that call as one step, the whole of
\* it under the store lock.
CallTableEvent(tEvent, isBulkSync) ==
    handleTableEvent(tableClock, thisNodeNetworks, networkNodes, entries,
                     tEvent, isBulkSync)

HandleTableEventStep(tEvent, isBulkSync) ==
    LET r == CallTableEvent(tEvent, isBulkSync)
    IN  /\ tableClock' = r.clock
        /\ entries' = r.out.entries
        /\ written' = r.out.written
        /\ last' = [op |-> "handleTableEvent",
                    isBulkSync |-> isBulkSync,
                    entryPresent |-> r.out.entryPresent,
                    applied |-> r.out.applied, ret |-> r.out.ret]
        /\ UNCHANGED <<networkClock, nodes, networks, thisNodeNetworks, networkNodes>>

\* A table event gossiped to the node (NotifyMsg, delegate.go:418).
DeliverTableEvent(tEvent, isBulkSync) ==
    /\ HandleTableEventStep(tEvent, isBulkSync)
    /\ UNCHANGED <<histVars, concVars, scenVars, syncVars, msgVars>>

\* The history of the deliveries to handleTableEvent, kept beside them.
RecordDelivery(tEvent) ==
    /\ maxDelivered' = MaxDeliveredAfter(tEvent)
    /\ topAdmitted' = TopAdmittedAfter(tEvent)
    /\ UNCHANGED deliveries

\* A table event delivered by gossip or by bulk sync, and recorded.
DeliverRecordedTableEvent(tEvent, isBulkSync) ==
    /\ HandleTableEventStep(tEvent, isBulkSync)
    /\ RecordDelivery(tEvent)
    /\ UNCHANGED <<concVars, scenVars, syncVars, msgVars>>

(* -------------------- handleNodeEvent (delegate.go:20) ------------------ *)

\* nDB.findNode: the node of that name in nDB.nodes, failedNodes or leftNodes.
findNode(ns, name) == name \in DOMAIN ns

\* _, ok := nDB.nodes[name]: the node is known to memberlist as alive.
InNodes(ns, name) == name \in DOMAIN ns /\ ns[name].state = "active"

\* nDB.changeNodeState: move the node to the map of newState; the result
\* holds the node maps it leaves and whether the node moved.
changeNodeState(ns, name, newState) ==
    IF ns[name].state = newState
    THEN [nodes |-> ns, moved |-> FALSE]
    ELSE [nodes |-> [ns EXCEPT ![name].state = newState], moved |-> TRUE]

\* delegate.go:35: "check if the event is fresh"
NodeIsStale(n, nEvent) == n.ltime >= nEvent.LTime

\* Variant of NodeEventOutcome: a Join or Leave is reported as a move even
\* when the node was in that state already.
NodeEventOutcomeAlwaysMoved(ns, nEvent) ==
    CASE nEvent.Type = "Join" ->
           [nodes |-> changeNodeState(ns, nEvent.NodeName, "active").nodes, ret |-> TRUE]
      [] nEvent.Type = "Leave" ->
           [nodes |-> changeNodeState(ns, nEvent.NodeName, "left").nodes, ret |-> TRUE]
      [] OTHER -> [nodes |-> ns, ret |-> FALSE]

\* delegate.go:49-73: the switch on the event type; the result is what
\* changeNodeState reports.
NodeEventOutcome(ns, nEvent) ==
    CASE nEvent.Type = "Join" ->
           LET r == changeNodeState(ns, nEvent.NodeName, "active")
           IN  [nodes |-> r.nodes, ret |-> r.moved]
      [] nEvent.Type = "Leave" ->
           LET r == changeNodeState(ns, nEvent.NodeName, "left")
           IN  [nodes |-> r.nodes, ret |-> r.moved]
      [] OTHER -> [nodes |-> ns, ret |-> FALSE]

\* delegate.go:25-74: the handler under nDB.Lock().
handleNodeEventLocked(ns, nEvent) ==
    LET name == nEvent.NodeName
        fresh == [ns EXCEPT ![name].ltime = nEvent.LTime]
        r == NodeEventOutcome(fresh, nEvent)
    IN  IF ~findNode(ns, name)
        THEN [nodes |-> ns, ret |-> FALSE, known |-> FALSE, applied |-> FALSE]
        ELSE IF NodeIsStale(ns[name], nEvent)
        THEN [nodes |-> ns, ret |-> FALSE, known |-> TRUE, applied |-> FALSE]
        ELSE IF ~InNodes(fresh, name)
        THEN [nodes |-> fresh, ret |-> FALSE, known |-> TRUE, applied |-> TRUE]
        ELSE [nodes |-> r.nodes, ret |-> r.ret, known |-> TRUE, applied |-> TRUE]

\* delegate.go:20-74: networkClock.Witness, then the locked part.
handleNodeEvent(clock, ns, nEvent) ==
    [clock |-> Witness(clock, nEvent.LTime),
     out |-> handleNodeEventLocked(ns, nEvent)]

\* The call handleNodeEvent(&nEvent) of handleNodeMessage (delegate.go:315)
\* in the current state, and that call as one step.
CallNodeEvent(nEvent) == handleNodeEvent(networkClock, nodes, nEvent)

HandleNodeEventStep(nEvent) ==
    LET r == CallNodeEvent(nEvent)
    IN  /\ networkClock' = r.clock
        /\ nodes' = r.out.nodes
        /\ written' = <<>>
        /\ last' = [op |-> "handleNodeEvent",
                    isBulkSync |-> FALSE, entryPresent |-> r.out.known,
                    applied |-> r.out.applied, ret |-> r.out.ret]
        /\ UNCHANGED <<tableClock, networks, thisNodeNetworks, networkNodes, entries>>

\* A node event gossiped to the node (NotifyMsg, delegate.go:418).
DeliverNodeEvent(nEvent) ==
    /\ HandleNodeEventStep(nEvent)
    /\ UNCHANGED <<histVars, concVars, scenVars, syncVars, msgVars>>

\* The same, with the event kept beside the call.
HearNodeEvent(nEvent) ==
    /\ HandleNodeEventStep(nEvent)
    /\ heard' = nEvent
    /\ UNCHANGED <<histVars, concVars, scenVars, localStateVars, mergeVars, msgVars>>

(* ------------------ handleNetworkEvent (delegate.go:76) ----------------- *)

\* nDB.addNetworkNode
addNetworkNode(nn, nid, nodeName) == MapPut(nn, nid, NetworkNodesOf(nn, nid) \cup {nodeName})

\* nDB.deleteNetworkNode
deleteNetworkNode(nn, nid, nodeName) ==
    IF nid \in DOMAIN nn THEN MapPut(nn, nid, nn[nid] \ {nodeName}) ELSE nn

\* The keys of the live entries of network nid owned by nodeName.
OwnedLive(es, nid, nodeName) ==
    {k \in DOMAIN es : k[1] = nid /\ es[k].node = nodeName /\ ~es[k].deleting}

\* nDB.deleteNodeNetworkEntries: every live entry of the network owned by
\* the node becomes a tombstone with the configured entry reap interval.
deleteNodeNetworkEntries(es, nid, nodeName) ==
    [k \in DOMAIN es |->
        IF k \in OwnedLive(es, nid, nodeName)
        THEN [es[k] EXCEPT !.deleting = TRUE, !.reapTime = ReapEntryInterval]
        ELSE es[k]]

\* A set of entry keys as a sequence (the order of the table walk).
RECURSIVE SeqOfKeys(_)
SeqOfKeys(S) ==
    IF S = {} THEN <<>>
    ELSE LET k == CHOOSE x \in S : TRUE IN <<k>> \o SeqOfKeys(S \ {k})

\* The delete WatchEvents nDB.deleteNodeNetworkEntries writes, one per entry.
deleteNodeNetworkEntriesEvents(es, nid, nodeName) ==
    LET ks == SeqOfKeys(OwnedLive(es, nid, nodeName))
    IN  [i \in 1..Len(ks) |->
            [Table |-> ks[i][2], NetworkID |-> ks[i][1], Key |-> ks[i][3],
             Value |-> Nil, Prev |-> es[ks[i]].value]]

\* Variant of FromLocalNode: events naming the local node are handled like
\* any other.
FromLocalNodeNever(nEvent) == FALSE

\* delegate.go:84: nEvent.NodeName == nDB.config.NodeID
FromLocalNode(nEvent) == nEvent.NodeName = LocalNode

\* Variant of NetworkIsStale: no event is stale, the last delivered is kept.
NetworkIsStaleNever(n, nEvent) == FALSE

\* Variant of NetworkIsStale: an event with the stored time is not stale.
NetworkIsStaleStrict(n, nEvent) == n.ltime > nEvent.LTime

\* delegate.go:102: "We have the latest state. Ignore the event since it is stale."
NetworkIsStale(n, nEvent) == n.ltime >= nEvent.LTime

\* Variant of UpdatedNetwork: a Leave sets no reap time.
UpdatedNetworkNoReapTime(n, nEvent) ==
    [ltime |-> nEvent.LTime, leaving |-> nEvent.Type = "Leave", reapTime |-> n.reapTime]

\* delegate.go:106-110: the record of a known pair after a fresh event.
UpdatedNetwork(n, nEvent) ==
    LET leaving == nEvent.Type = "Leave"
    IN  [ltime |-> nEvent.LTime, leaving |-> leaving,
         reapTime |-> IF leaving THEN ReapNetworkInterval ELSE n.reapTime]

\* Variant of SyncNetworkNodes: the node is added whatever the event.
SyncNetworkNodesAlwaysAdd(nn, nEvent) ==
    addNetworkNode(nn, nEvent.NetworkID, nEvent.NodeName)

\* delegate.go:116-120: the member set of the network follows the event.
SyncNetworkNodes(nn, nEvent) ==
    IF nEvent.Type = "Leave"
    THEN deleteNetworkNode(nn, nEvent.NetworkID, nEvent.NodeName)
    ELSE addNetworkNode(nn, nEvent.NetworkID, nEvent.NodeName)

\* Variant of EntriesAfterNetworkEvent: the entries are left as they are.
EntriesAfterNetworkEventKept(es, nEvent) == es

\* delegate.go:108-114: on a Leave, "Delete all the entries for this network
\* owned by the node."
EntriesAfterNetworkEvent(es, nEvent) ==
    IF nEvent.Type = "Leave"
    THEN deleteNodeNetworkEntries(es, nEvent.NetworkID, nEvent.NodeName)
    ELSE es

\* delegate.go:81-140: the handler under nDB.Lock().
handleNetworkEventLocked(ns, nws, nn, es, nEvent) ==
    LET name == nEvent.NodeName
        nid == nEvent.NetworkID
        ok == name \in DOMAIN nws
        \* delegate.go:95-96: the node's map of networks, made on first use
        nws1 == IF ok THEN nws ELSE MapPut(nws, name, EmptyMapOfNetworks)
        nodeNetworks == nws1[name]
        leaving == nEvent.Type = "Leave"
        n == nodeNetworks[nid]
        unchanged == [nodes |-> ns, networks |-> nws, networkNodes |-> nn, entries |-> es,
                      written |-> <<>>, ret |-> FALSE, known |-> FALSE, applied |-> FALSE]
    IN  IF FromLocalNode(nEvent) THEN unchanged
        ELSE IF ~ok /\ leaving THEN unchanged
        ELSE IF nid \in DOMAIN nodeNetworks
        THEN IF NetworkIsStale(n, nEvent)
             THEN [unchanged EXCEPT !.known = TRUE]
             ELSE [nodes |-> ns,
                   networks |-> MapPut(nws1, name,
                                       MapPut(nodeNetworks, nid, UpdatedNetwork(n, nEvent))),
                   networkNodes |-> SyncNetworkNodes(nn, nEvent),
                   entries |-> EntriesAfterNetworkEvent(es, nEvent),
                   written |-> IF leaving THEN deleteNodeNetworkEntriesEvents(es, nid, name)
                               ELSE <<>>,
                   ret |-> TRUE, known |-> TRUE, applied |-> TRUE]
        ELSE IF leaving THEN [unchanged EXCEPT !.networks = nws1]
        ELSE IF ~InNodes(ns, name) THEN [unchanged EXCEPT !.networks = nws1]
        ELSE [nodes |-> ns,
              networks |-> MapPut(nws1, name,
                              MapPut(nodeNetworks, nid,
                                     [ltime |-> nEvent.LTime, leaving |-> FALSE, reapTime |-> 0])),
              networkNodes |-> addNetworkNode(nn, nid, name),
              entries |-> es, written |-> <<>>,
              ret |-> TRUE, known |-> FALSE, applied |-> TRUE]

\* delegate.go:76-140: networkClock.Witness, then the locked part.
handleNetworkEvent(clock, ns, nws, nn, es, nEvent) ==
    [clock |-> Witness(clock, nEvent.LTime),
     out |-> handleNetworkEventLocked(ns, nws, nn, es, nEvent)]

\* The call handleNetworkEvent(&nEvent) of handleNetworkMessage
\* (delegate.go:336) in the current state, and that call as one step.
CallNetworkEvent(nEvent) ==
    handleNetworkEvent(networkClock, nodes, networks, networkNodes, entries, nEvent)

HandleNetworkEventStep(nEvent) ==
    LET r == CallNetworkEvent(nEvent)
    IN  /\ networkClock' = r.clock
        /\ networks' = r.out.networks
        /\ networkNodes' = r.out.networkNodes
        /\ entries' = r.out.entries
        /\ written' = r.out.written
        /\ last' = [op |-> "handleNetworkEvent",
                    isBulkSync |-> FALSE, entryPresent |-> r.out.known,
                    applied |-> r.out.applied, ret |-> r.out.ret]
        /\ UNCHANGED <<tableClock, nodes, thisNodeNetworks>>

\* A network event gossiped to the node (NotifyMsg, delegate.go:418).
DeliverNetworkEvent(nEvent) ==
    /\ HandleNetworkEventStep(nEvent)
    /\ UNCHANGED <<histVars, concVars, scenVars, syncVars, msgVars>>

\* The same, with the event kept beside the call.
HearNetworkEvent(nEvent) ==
    /\ HandleNetworkEventStep(nEvent)
    /\ heard' = nEvent
    /\ UNCHANGED <<histVars, concVars, scenVars, localStateVars, mergeVars, msgVars>>

(* --------------------------- initial states ---------------------------- *)

\* The goroutines that may be inside handleTableEvent at once.
Callers == {"t1", "t2"}

IdleCallers == [t \in Callers |-> "idle"]

\* The locals of a caller that is not inside the handler.
NoLocals == [tEvent |-> [Type |-> "none"], isBulkSync |-> FALSE,
             entryPresent |-> FALSE, prev |-> NoEntry, applied |-> FALSE, ret |-> FALSE]

NoCalls == [t \in Callers |-> NoLocals]

\* The scenario's log: the events chosen, the number of duplicates delivered,
\* and every WatchEvent written since the start, in order.
NoScenario == [create |-> [Type |-> "none"], dups |-> 0,
               delete |-> [Type |-> "none"], log |-> <<>>]

\* No handleTableMessage call is in steps.
NoTableMessage == [pc |-> "idle", tEvent |-> [Type |-> "none"], isBulkSync |-> FALSE,
                   rebroadcast |-> FALSE, ok |-> FALSE, leaving |-> FALSE]

\* The record of a network the local node joined as its first local event
\* (the network clock incremented to 1), and left, if leaving, as its second.
LocalNetwork(leaving, inSync) ==
    [ltime |-> IF leaving THEN 2 ELSE 1, leaving |-> leaving, inSync |-> inSync]

\* The network clock after those local events.
RECURSIVE MaxOf(_)
MaxOf(S) == IF S = {} THEN 0 ELSE LET x == CHOOSE y \in S : TRUE IN Max(x, MaxOf(S \ {x}))

LocalClock(tnn) == MaxOf({tnn[nid].ltime : nid \in DOMAIN tnn})

\* No node or network event was handled yet.
NoEvent == [Type |-> "none"]

\* No LocalState call was made or is in progress, and nothing is being merged.
NoPushPull == [LTime |-> 0, NodeName |-> "", Networks |-> <<>>]

InitSync ==
    /\ pp = NoPushPull
    /\ lsPc = "idle"
    /\ lsBefore = [join |-> FALSE, clock |-> 0, networks |-> EmptyMap]
    /\ merging = NoPushPull
    /\ mergeAt = 0
    /\ heard = NoEvent

\* No buffer (NotifyMsg not called yet).
NoBuf == [mType |-> "none"]

\* No bulk sync was started by the node.
NoWait == [pc |-> "idle", node |-> "", ch |-> 0]

\* No message received, the broadcast queues empty, no bulk sync awaited.
InitMsg ==
    /\ work = <<>>
    /\ received = NoBuf
    /\ nodeBroadcasts = <<>>
    /\ networkBroadcasts = <<>>
    /\ tableRebroadcasts = EmptyMap
    /\ bulkSyncAckTbl = EmptyMap
    /\ closed = {}
    /\ sent = <<>>
    /\ wait = NoWait

\* What every specification starts with: the table clock at zero, an empty
\* entry store, no call made, nobody holding the lock (the network clock
\* starts as the local joins left it, LocalClock).
InitCommon ==
    /\ tableClock = 0
    /\ entries = EmptyMap
    /\ written = <<>>
    /\ last = NoCall
    /\ maxDelivered = [k \in EntryKeys |-> 0]
    /\ topAdmitted = EmptyMap
    /\ deliveries = <<>>
    /\ lock = "free"
    /\ pc = IdleCallers
    /\ call = NoCalls
    /\ before = EmptyMap
    /\ phase = "off"
    /\ scen = NoScenario
    /\ tm = NoTableMessage
    /\ InitSync
    /\ InitMsg

\* The local membership of a network: not joined, joined (bulk-synced or
\* not yet), or being left.
LocalMemberships ==
    {EmptyMap} \cup
    {[nid \in NetworkIDs |-> LocalNetwork(l, s)] : l \in BOOLEAN, s \in BOOLEAN}

\* Table events only, delivered to a node whose view of the network (its own
\* membership, the remote members) is any the program can hold.
InitTable ==
    /\ InitCommon
    /\ nodes = EmptyMap
    /\ networks = EmptyMap
    /\ thisNodeNetworks \in LocalMemberships
    /\ networkClock = LocalClock(thisNodeNetworks)
    /\ networkNodes \in [NetworkIDs -> SUBSET RemoteNodes]

NextTable ==
    \E tEvent \in TableEvents, isBulkSync \in BOOLEAN :
        DeliverRecordedTableEvent(tEvent, isBulkSync)

SpecTable == InitTable /\ [][NextTable]_vars

\* The node after it joined the cluster: node A is alive for memberlist, node
\* C is not known to it; the local membership of the network is any of
\* LocalMemberships and no remote membership has been heard of yet.
Init ==
    /\ InitCommon
    /\ nodes = [name \in {"A"} |-> [ltime |-> 0, state |-> "active"]]
    /\ networks = EmptyMap
    /\ thisNodeNetworks \in LocalMemberships
    /\ networkClock = LocalClock(thisNodeNetworks)
    /\ networkNodes = [nid \in DOMAIN thisNodeNetworks |-> {LocalNode}]

Next ==
    \/ \E nEvent \in NodeEvents : DeliverNodeEvent(nEvent)
    \/ \E nEvent \in NetworkEvents : DeliverNetworkEvent(nEvent)
    \/ \E tEvent \in GossipTableEvents : DeliverTableEvent(tEvent, FALSE)

Spec == Init /\ [][Next]_vars

(* ------------- concurrent callers of handleTableEvent ------------------ *)

\* The table events the concurrent callers handle, gossip messages passed on
\* by NotifyMsg (isBulkSync false): all events of the member node A, and a
\* Create of node C, which is no member of the network; a Delete carries a
\* residual reap time above a sixth of the interval.
ConcTableEvents ==
    {tEvent \in TableEvents :
        /\ tEvent.ResidualReapTime =
              (IF tEvent.Type = "Delete" THEN (ReapEntryInterval \div 6) + 1 ELSE 0)
        /\ tEvent.NodeName = "C" => tEvent.Type = "Create" /\ tEvent.Value = "v1"}

\* The program positions at which a caller holds nDB's lock.
LockedPositions == {"check", "store", "notify", "unlock"}

\* Variant of CanLock: the handler runs without taking the lock.
CanLockAlways(holder) == TRUE

\* nDB.Lock() (delegate.go:146) returns only when nobody holds the lock.
CanLock(holder) == holder = "free"

\* delegate.go:144: tableClock.Witness, an atomic of its own before the lock.
BeginTableEvent(t, tEvent, isBulkSync) ==
    /\ pc[t] = "idle"
    /\ tableClock' = Witness(tableClock, tEvent.LTime)
    /\ call' = [call EXCEPT ![t] = [NoLocals EXCEPT !.tEvent = tEvent,
                                                      !.isBulkSync = isBulkSync]]
    /\ pc' = [pc EXCEPT ![t] = "lock"]
    /\ UNCHANGED <<networkClock, storeVars, written, last, lock, before>>
    /\ UNCHANGED <<histVars, scenVars, syncVars, msgVars>>

\* delegate.go:146: nDB.Lock()
AcquireLock(t) ==
    /\ pc[t] = "lock"
    /\ CanLock(lock)
    /\ lock' = t
    /\ pc' = [pc EXCEPT ![t] = "check"]
    /\ UNCHANGED <<networkClock, tableClock, storeVars, written, last, call, before>>
    /\ UNCHANGED <<histVars, scenVars, syncVars, msgVars>>

\* delegate.go:152-178: the membership check, the lookup and the stale check.
CheckTableEvent(t) ==
    LET tEvent == call[t].tEvent
        entryPresent == HasEntry(entries, tEvent.TableName, tEvent.NetworkID, tEvent.Key)
        prev == IF entryPresent
                THEN getEntry(entries, tEvent.TableName, tEvent.NetworkID, tEvent.Key)
                ELSE NoEntry
    IN  /\ pc[t] = "check"
        /\ IF OutOfNetwork(thisNodeNetworks, networkNodes, tEvent)
           THEN /\ pc' = [pc EXCEPT ![t] = "unlock"]
                /\ UNCHANGED call
           ELSE /\ call' = [call EXCEPT ![t].entryPresent = entryPresent, ![t].prev = prev]
                /\ pc' = [pc EXCEPT ![t] =
                             IF entryPresent /\ IsStale(prev, tEvent) THEN "unlock" ELSE "store"]
        /\ UNCHANGED <<networkClock, tableClock, storeVars, written, last, lock, before>>
        /\ UNCHANGED <<histVars, scenVars, syncVars, msgVars>>

\* delegate.go:180-216: the new entry is stored; a delete for an unknown
\* entry returns from here.
StoreTableEvent(t) ==
    LET tEvent == call[t].tEvent
        k == EventKey(tEvent)
        e == NewEntry(tEvent)
        unknownDelete == ~call[t].entryPresent /\ tEvent.Type = "Delete"
    IN  /\ pc[t] = "store"
        /\ entries' = createOrUpdateEntry(entries, tEvent.NetworkID, tEvent.TableName,
                                          tEvent.Key, e)
        /\ before' = MapPut(before, k,
                            IF k \in DOMAIN entries THEN entries[k] ELSE NoEntry)
        /\ call' = [call EXCEPT
                      ![t].applied = TRUE,
                      ![t].ret = IF unknownDelete
                                 THEN UnknownDeleteRebroadcast(
                                          call[t].isBulkSync,
                                          thisNodeNetworks[tEvent.NetworkID].inSync, e)
                                 ELSE FALSE]
        /\ pc' = [pc EXCEPT ![t] = IF unknownDelete THEN "unlock" ELSE "notify"]
        /\ UNCHANGED <<networkClock, tableClock, nodes, networks, thisNodeNetworks,
                       networkNodes, written, last, lock>>
        /\ UNCHANGED <<histVars, scenVars, syncVars, msgVars>>

\* delegate.go:218-248: the WatchEvent is written to the broadcaster (or
\* skipped) and network.inSync is the result.
NotifyTableEvent(t) ==
    LET tEvent == call[t].tEvent
    IN  /\ pc[t] = "notify"
        /\ written' = WatchEvents(tEvent, call[t].entryPresent, call[t].prev)
        /\ call' = [call EXCEPT ![t].ret = Rebroadcast(thisNodeNetworks[tEvent.NetworkID])]
        /\ pc' = [pc EXCEPT ![t] = "unlock"]
        /\ UNCHANGED <<networkClock, tableClock, storeVars, last, lock, before>>
        /\ UNCHANGED <<histVars, scenVars, syncVars, msgVars>>

\* delegate.go:150: the deferred nDB.Unlock(), and the return.
ReleaseLock(t) ==
    /\ pc[t] = "unlock"
    /\ lock' = "free"
    /\ last' = [op |-> "handleTableEvent", isBulkSync |-> call[t].isBulkSync,
                entryPresent |-> call[t].entryPresent,
                applied |-> call[t].applied, ret |-> call[t].ret]
    /\ call' = [call EXCEPT ![t] = NoLocals]
    /\ pc' = [pc EXCEPT ![t] = "idle"]
    /\ UNCHANGED <<networkClock, tableClock, storeVars, written, before>>
    /\ UNCHANGED <<histVars, scenVars, syncVars, msgVars>>

\* The local node is a member of the network, and so is node A; C is not.
InitConc ==
    /\ InitCommon
    /\ nodes = EmptyMap
    /\ networks = EmptyMap
    /\ thisNodeNetworks \in
          {[nid \in NetworkIDs |-> LocalNetwork(FALSE, s)] : s \in BOOLEAN}
    /\ networkClock = LocalClock(thisNodeNetworks)
    /\ networkNodes = [nid \in NetworkIDs |-> {LocalNode, "A"}]

NextConc ==
    \E t \in Callers :
        \/ \E tEvent \in ConcTableEvents : BeginTableEvent(t, tEvent, FALSE)
        \/ AcquireLock(t)
        \/ CheckTableEvent(t)
        \/ StoreTableEvent(t)
        \/ NotifyTableEvent(t)
        \/ ReleaseLock(t)

SpecConc == InitConc /\ [][NextConc]_vars

(* ---------------- a create, its duplicates, then a delete -------------- *)

\* Node A, a member of the network, creates the key: the node receives the
\* Create (by gossip or by bulk sync).
ReceiveCreate(tEvent, isBulkSync) ==
    /\ phase = "start"
    /\ tEvent.Type = "Create" /\ tEvent.NodeName = "A"
    /\ HandleTableEventStep(tEvent, isBulkSync)
    /\ phase' = "created"
    /\ scen' = [scen EXCEPT !.create = tEvent, !.log = @ \o written']
    /\ UNCHANGED tm
    /\ UNCHANGED <<histVars, concVars, syncVars, msgVars>>

\* The gossip layer delivers the same Create once more.
ReceiveDuplicate(isBulkSync) ==
    /\ phase = "created"
    /\ scen.dups < MaxDup
    /\ HandleTableEventStep(scen.create, isBulkSync)
    /\ scen' = [scen EXCEPT !.dups = @ + 1, !.log = @ \o written']
    /\ UNCHANGED tm
    /\ UNCHANGED <<phase, histVars, concVars, syncVars, msgVars>>

\* A member deletes the key later: the node receives the Delete, which
\* carries a newer time and a positive residual reap time.
ReceiveDelete(tEvent, isBulkSync) ==
    /\ phase = "created"
    /\ tEvent.Type = "Delete"
    /\ tEvent.LTime > scen.create.LTime
    /\ tEvent.ResidualReapTime > 0
    /\ HandleTableEventStep(tEvent, isBulkSync)
    /\ phase' = "done"
    /\ scen' = [scen EXCEPT !.delete = tEvent, !.log = @ \o written']
    /\ UNCHANGED tm
    /\ UNCHANGED <<histVars, concVars, syncVars, msgVars>>

\* The node is a member of the network (bulk-synced or not yet), nodes A and
\* C are members, and the key is unknown.
InitScenario ==
    /\ tableClock = 0
    /\ entries = EmptyMap
    /\ written = <<>>
    /\ last = NoCall
    /\ maxDelivered = [k \in EntryKeys |-> 0]
    /\ topAdmitted = EmptyMap
    /\ deliveries = <<>>
    /\ lock = "free"
    /\ pc = IdleCallers
    /\ call = NoCalls
    /\ before = EmptyMap
    /\ phase = "start"
    /\ scen = NoScenario
    /\ tm = NoTableMessage
    /\ InitSync
    /\ InitMsg
    /\ nodes = EmptyMap
    /\ networks = EmptyMap
    /\ thisNodeNetworks \in
          {[nid \in NetworkIDs |-> LocalNetwork(FALSE, s)] : s \in BOOLEAN}
    /\ networkClock = LocalClock(thisNodeNetworks)
    /\ networkNodes = [nid \in NetworkIDs |-> {LocalNode} \cup RemoteNodes]

NextScenario ==
    \/ \E tEvent \in TableEvents, isBulkSync \in BOOLEAN : ReceiveCreate(tEvent, isBulkSync)
    \/ \E isBulkSync \in BOOLEAN : ReceiveDuplicate(isBulkSync)
    \/ \E tEvent \in TableEvents, isBulkSync \in BOOLEAN : ReceiveDelete(tEvent, isBulkSync)

SpecScenario == InitScenario /\ [][NextScenario]_vars

(* ------------------- node and network membership ----------------------- *)

\* The nodes the node maps hold at the start: A is alive for memberlist; C is
\* not known at all, or is held as failed.
MemberNodeMaps ==
    {[name \in {"A"} |-> [ltime |-> 0, state |-> "active"]],
     [name \in {"A", "C"} |->
         [ltime |-> 0, state |-> IF name = "A" THEN "active" ELSE "failed"]]}

InitMember ==
    /\ InitCommon
    /\ nodes \in MemberNodeMaps
    /\ networks = EmptyMap
    /\ thisNodeNetworks \in LocalMemberships
    /\ networkClock = LocalClock(thisNodeNetworks)
    /\ networkNodes = [nid \in DOMAIN thisNodeNetworks |-> {LocalNode}]

\* Node and network events, each kept beside the call that handled it.
NextMember ==
    \/ \E nEvent \in AllNodeEvents : HearNodeEvent(nEvent)
    \/ \E nEvent \in NetworkEvents : HearNetworkEvent(nEvent)

SpecMember == InitMember /\ [][NextMember]_vars

(* ----------------------- LocalState (delegate.go:425) ------------------- *)

\* nDB.updateLocalNetworkTime: the network clock is incremented and every
\* local network record takes the new time.
updateLocalNetworkTime(clock, tnn) ==
    [clock |-> clock + 1,
     networks |-> [nid \in DOMAIN tnn |-> [tnn[nid] EXCEPT !.ltime = clock + 1]]]

\* Variant of LocalTimes: the times are bumped whatever join is.
LocalTimesAlwaysBumped(join, clock, tnn) == updateLocalNetworkTime(clock, tnn)

\* delegate.go:426-433: the times are bumped only when joining.
LocalTimes(join, clock, tnn) ==
    IF join THEN updateLocalNetworkTime(clock, tnn)
    ELSE [clock |-> clock, networks |-> tnn]

\* Variant of NetworkEntryOf: the leaving flag is left at its zero value.
NetworkEntryOfNotLeaving(name, nid, n) ==
    [LTime |-> n.ltime, NetworkID |-> nid, NodeName |-> name, Leaving |-> FALSE]

\* delegate.go:441-446 and 450-455: the NetworkEntry of a network record.
NetworkEntryOf(name, nid, n) ==
    [LTime |-> n.ltime, NetworkID |-> nid, NodeName |-> name, Leaving |-> n.leaving]

\* The enumerations of a finite set: the orders in which ranging over a Go
\* map may visit its keys.
Orders(S) ==
    {sq \in [1..Cardinality(S) -> S] :
        \A i, j \in 1..Cardinality(S) : i # j => sq[i] # sq[j]}

\* The (node, network) pairs nDB.networks holds a record of.
RemotePairs(nws) ==
    {<<name, nid>> \in RemoteNodes \X NetworkIDs :
        name \in DOMAIN nws /\ nid \in DOMAIN nws[name]}

\* delegate.go:435-457: the NetworkPushPull built under nDB.RLock(), the local
\* networks ranged over in the order local and then the remote records in the
\* order remote.
Snapshot(clock, tnn, nws, local, remote) ==
    [LTime |-> clock,
     NodeName |-> LocalNode,
     Networks |->
        [i \in 1..Len(local) |-> NetworkEntryOf(LocalNode, local[i], tnn[local[i]])]
        \o [i \in 1..Len(remote) |->
              NetworkEntryOf(remote[i][1], remote[i][2], nws[remote[i][1]][remote[i][2]])]]

\* delegate.go:425-433: LocalState is called; when joining, the local times
\* are bumped under nDB.Lock(), which is released before the snapshot.
LocalStateBegin(join) ==
    LET r == LocalTimes(join, networkClock, thisNodeNetworks)
    IN  /\ lsPc = "idle"
        /\ join => networkClock < MaxLTime + MaxBumps
        /\ networkClock' = r.clock
        /\ thisNodeNetworks' = r.networks
        /\ lsBefore' = [join |-> join, clock |-> networkClock, networks |-> thisNodeNetworks]
        /\ lsPc' = "snapshot"
        /\ UNCHANGED <<tableClock, nodes, networks, networkNodes, entries, written, last, pp>>
        /\ UNCHANGED <<histVars, concVars, scenVars, mergeVars, heard, msgVars>>

\* delegate.go:435-468: the snapshot, taken under nDB.RLock(), is returned.
LocalStateSnapshot ==
    /\ lsPc = "snapshot"
    /\ \E local \in Orders(DOMAIN thisNodeNetworks), remote \in Orders(RemotePairs(networks)) :
          pp' = Snapshot(networkClock, thisNodeNetworks, networks, local, remote)
    /\ lsPc' = "idle"
    /\ last' = [op |-> "LocalState", isBulkSync |-> FALSE, entryPresent |-> FALSE,
                applied |-> lsBefore.join, ret |-> FALSE]
    /\ UNCHANGED <<networkClock, tableClock, storeVars, written, lsBefore>>
    /\ UNCHANGED <<histVars, concVars, scenVars, mergeVars, heard, msgVars>>

\* LocalState calls while network events are handled.
NextLocalState ==
    \/ \E nEvent \in NetworkEvents : HearNetworkEvent(nEvent)
    \/ \E join \in BOOLEAN : LocalStateBegin(join)
    \/ LocalStateSnapshot

SpecLocalState == InitMember /\ [][NextLocalState]_vars

(* -------------------- MergeRemoteState (delegate.go:471) ---------------- *)

\* The NetworkEntry records a push-pull payload may hold.
NetworkEntries ==
    [LTime : LTimes, NetworkID : NetworkIDs,
     NodeName : RemoteNodes \cup {LocalNode}, Leaving : BOOLEAN]

\* The sequences over S of length at most n.
RECURSIVE SeqsUpTo(_, _)
SeqsUpTo(S, n) ==
    IF n = 0 THEN {<<>>}
    ELSE LET shorter == SeqsUpTo(S, n - 1)
         IN  shorter \cup {Append(sq, x) : sq \in shorter, x \in S}

\* The payloads a remote node may send: its name, its network clock, which
\* has witnessed every time in its records, and the records.
PushPulls ==
    {p \in [LTime : LTimes, NodeName : RemoteNodes,
            Networks : SeqsUpTo(NetworkEntries, MaxRecords)] :
        \A i \in 1..Len(p.Networks) : p.Networks[i].LTime <= p.LTime}

\* Variant of NodeEventOfPushPull: the sender is announced as leaving.
NodeEventOfPushPullLeave(p) == [LTime |-> p.LTime, NodeName |-> p.NodeName, Type |-> "Leave"]

\* delegate.go:494-498: the node event synthesized for the sender.
NodeEventOfPushPull(p) == [LTime |-> p.LTime, NodeName |-> p.NodeName, Type |-> "Join"]

\* Variant of NetworkEventOf: the Leaving flag is not looked at.
NetworkEventOfAlwaysJoin(n) ==
    [LTime |-> n.LTime, NodeName |-> n.NodeName, NetworkID |-> n.NetworkID, Type |-> "Join"]

\* delegate.go:502-511: the network event synthesized for a record.
NetworkEventOf(n) ==
    [LTime |-> n.LTime, NodeName |-> n.NodeName, NetworkID |-> n.NetworkID,
     Type |-> IF n.Leaving THEN "Leave" ELSE "Join"]

\* A MergeRemoteState call is under way, or has returned.
Merging == merging # NoPushPull

\* The call has handled the node event and every record.
Merged == Merging /\ mergeAt = Len(merging.Networks) + 1

\* delegate.go:471-492: the payload is decoded.
MergeRemoteStateBegin ==
    /\ ~Merging
    /\ \E p \in PushPulls : merging' = p
    /\ mergeAt' = 0
    /\ UNCHANGED <<networkClock, tableClock, storeVars, written, last>>
    /\ UNCHANGED <<histVars, concVars, scenVars, localStateVars, heard, msgVars>>

\* Variant of DiscardResult: an event the handler returned true for is
\* queued.
DiscardResultQueued(q, rebroadcast, nEvent) ==
    IF rebroadcast THEN Append(q, [msg |-> nEvent]) ELSE q

\* delegate.go:499, 513: the handler is called as a statement, its result
\* not looked at: the broadcast queue is left as it is.
DiscardResult(q, rebroadcast, nEvent) == q

\* delegate.go:494-499: the sender's Join goes through handleNodeEvent.
MergeNodeEvent ==
    /\ Merging /\ mergeAt = 0
    /\ HandleNodeEventStep(NodeEventOfPushPull(merging))
    /\ nodeBroadcasts' =
          DiscardResult(nodeBroadcasts, CallNodeEvent(NodeEventOfPushPull(merging)).out.ret,
                        NodeEventOfPushPull(merging))
    /\ mergeAt' = 1
    /\ UNCHANGED <<histVars, concVars, scenVars, localStateVars, heard, merging>>
    /\ UNCHANGED <<work, received, networkBroadcasts, tableRebroadcasts, ackVars>>

\* delegate.go:501-514: the next record goes through handleNetworkEvent.
MergeNetworkEvent ==
    /\ Merging /\ mergeAt \in 1..Len(merging.Networks)
    /\ HandleNetworkEventStep(NetworkEventOf(merging.Networks[mergeAt]))
    /\ networkBroadcasts' =
          DiscardResult(networkBroadcasts,
                        CallNetworkEvent(NetworkEventOf(merging.Networks[mergeAt])).out.ret,
                        NetworkEventOf(merging.Networks[mergeAt]))
    /\ mergeAt' = mergeAt + 1
    /\ UNCHANGED <<histVars, concVars, scenVars, localStateVars, heard, merging>>
    /\ UNCHANGED <<work, received, nodeBroadcasts, tableRebroadcasts, ackVars>>

\* The nodes the node maps hold when the payload arrives.
MergeNodeMaps ==
    MemberNodeMaps \cup {[name \in RemoteNodes |-> [ltime |-> 0, state |-> "active"]]}

\* An empty store: no network of the local node, no record of a remote one.
InitMerge ==
    /\ InitCommon
    /\ nodes \in MergeNodeMaps
    /\ networks = EmptyMap
    /\ thisNodeNetworks = EmptyMap
    /\ networkClock = LocalClock(thisNodeNetworks)
    /\ networkNodes = EmptyMap

\* One MergeRemoteState call, alone.
NextMerge ==
    \/ MergeRemoteStateBegin
    \/ MergeNodeEvent
    \/ MergeNetworkEvent

SpecMerge == InitMerge /\ [][NextMerge]_vars

(* --------------------- the codec and the queues ------------------------ *)

\* A buffer is an envelope [mType, data] (the type tag and the payload), a
\* buffer decodeMessage fails on, or the empty buffer; a payload is the
\* encoding of a value, or bytes that do not decode.
Encoded(v) == [ok |-> TRUE, v |-> v]

\* Bytes that do not decode: v is what can be read before the error.
Truncated(v) == [ok |-> FALSE, v |-> v]

Undecodable == Truncated(<<>>)

BadBuf == [mType |-> "undecodable"]

EmptyBuf == [mType |-> "empty"]

\* encodeRawMessage: the envelope of a payload under a type tag.
encodeRawMessage(mType, data) == [mType |-> mType, data |-> data]

\* decodeMessage: the type tag and the payload of an envelope, or an error.
decodeMessage(buf) ==
    IF buf.mType = "undecodable"
    THEN [err |-> TRUE, mType |-> "", data |-> Undecodable]
    ELSE [err |-> FALSE, mType |-> buf.mType, data |-> buf.data]

\* The Invalidates methods of the three kinds of queued message: the same
\* table entry, the same node in the same network, the same node.
TableInvalidates(m, other) ==
    m.tname = other.tname /\ m.id = other.id /\ m.key = other.key

NetworkInvalidates(m, other) == m.id = other.id /\ m.node = other.node

NodeInvalidates(m, other) == m.msg.data.v.NodeName = other.msg.data.v.NodeName

\* b.Invalidates(other), for two messages of one queue.
Invalidates(b, other) ==
    CASE b.msg.mType = "TableEvent" -> TableInvalidates(b, other)
      [] b.msg.mType = "NetworkEvent" -> NetworkInvalidates(b, other)
      [] OTHER -> NodeInvalidates(b, other)

\* memberlist's TransmitLimitedQueue.QueueBroadcast: the queued items that b
\* invalidates are dropped and b is queued last.
QueueBroadcast(q, b) ==
    Append(SelectSeq(q, LAMBDA other : ~Invalidates(b, other)), b)

\* n.tableRebroadcasts of a network of the local node.
TableQueueOf(tr, nid) == IF nid \in DOMAIN tr THEN tr[nid] ELSE <<>>

\* Variant of OverThreshold: gossip is held to the limit as well.
OverThresholdAnyPath(isBulkSync, q) == Len(q) > MaxQueueLenBroadcastOnSync

\* delegate.go:295: "if the queue is over the threshold, avoid distributing
\* information coming from TCP sync"
OverThreshold(isBulkSync, q) == isBulkSync /\ Len(q) > MaxQueueLenBroadcastOnSync

(* ---------------- handleMessage (delegate.go:390) and below ------------- *)

\* The calls handleMessage still has to make: handleMessage(buf, isBulkSync)
\* itself, and the rest of handleBulkSync after its payload was handled.
MessageTask(buf, isBulkSync) ==
    [task |-> "handleMessage", buf |-> buf, isBulkSync |-> isBulkSync]

ReplyTask(bsm) ==
    [task |-> "reply", buf |-> encodeRawMessage("BulkSync", Encoded(bsm)),
     isBulkSync |-> TRUE]

\* The type tags handleMessage has a case for.
HandledTypes == {"NodeEvent", "NetworkEvent", "TableEvent", "BulkSync", "Compound"}

\* Variant of PayloadError: the parts of a compound read before the error
\* are handled.
PayloadErrorButCompound(mType, data) == mType # "Compound" /\ ~data.ok

\* delegate.go:253-257, 267-270, 310-313, 331-334, 354-357: proto.Unmarshal
\* or decodeCompoundMessage returns an error.
PayloadError(mType, data) == ~data.ok

\* delegate.go:391-395, 408-409 and the payload checks of the five handlers:
\* the buffer is logged and dropped.
Dropped(buf) ==
    LET d == decodeMessage(buf)
    IN  \/ d.err
        \/ d.mType \notin HandledTypes
        \/ PayloadError(d.mType, d.data)

\* The head of work is handleMessage(buf, isBulkSync) for a buffer of that
\* type that decodes.
AtMessage(mType) ==
    /\ work # <<>>
    /\ Head(work).task = "handleMessage"
    /\ ~Dropped(Head(work).buf)
    /\ Head(work).buf.mType = mType

\* Variant of NotifyMsg: the buffer is handled as a bulk sync's payload.
NotifyMsgBulk(buf) ==
    /\ received' = buf
    /\ work' = IF buf = EmptyBuf THEN <<>> ELSE <<MessageTask(buf, TRUE)>>

\* NotifyMsg (delegate.go:413-419): a buffer arrives; an empty one is
\* ignored, any other goes to handleMessage with isBulkSync false.
NotifyMsg(buf) ==
    /\ received' = buf
    /\ work' = IF buf = EmptyBuf THEN <<>> ELSE <<MessageTask(buf, FALSE)>>

\* handleMessage, handleCompound, handleBulkSync and the three message
\* handlers on a buffer that does not decode or has an unknown type tag.
DropMessage ==
    /\ work # <<>>
    /\ Head(work).task = "handleMessage"
    /\ Dropped(Head(work).buf)
    /\ work' = Tail(work)
    /\ UNCHANGED <<networkClock, tableClock, storeVars, written, last>>
    /\ UNCHANGED <<received, queueVars, ackVars>>

\* handleNodeMessage (delegate.go:308-327)
HandleNodeMessage ==
    /\ AtMessage("NodeEvent")
    /\ LET buf == Head(work).buf
           nEvent == buf.data.v
           rebroadcast == CallNodeEvent(nEvent).out.ret
       IN  /\ HandleNodeEventStep(nEvent)
           /\ nodeBroadcasts' =
                 IF rebroadcast
                 THEN QueueBroadcast(nodeBroadcasts,
                                     [msg |-> encodeRawMessage("NodeEvent", buf.data)])
                 ELSE nodeBroadcasts
    /\ work' = Tail(work)
    /\ UNCHANGED <<received, networkBroadcasts, tableRebroadcasts, ackVars>>

\* handleNetworkMessage (delegate.go:329-350)
HandleNetworkMessage ==
    /\ AtMessage("NetworkEvent")
    /\ LET buf == Head(work).buf
           nEvent == buf.data.v
           rebroadcast == CallNetworkEvent(nEvent).out.ret
       IN  /\ HandleNetworkEventStep(nEvent)
           /\ networkBroadcasts' =
                 IF rebroadcast
                 THEN QueueBroadcast(networkBroadcasts,
                                     [msg |-> encodeRawMessage("NetworkEvent", buf.data),
                                      id |-> nEvent.NetworkID, node |-> nEvent.NodeName])
                 ELSE networkBroadcasts
    /\ work' = Tail(work)
    /\ UNCHANGED <<received, nodeBroadcasts, tableRebroadcasts, ackVars>>

\* delegate.go:277-304: what handleTableMessage does to n.tableRebroadcasts
\* once handleTableEvent has returned rebroadcast.
TableRebroadcastsAfter(tr, tnn, data, isBulkSync, rebroadcast) ==
    LET tEvent == data.v
        nid == tEvent.NetworkID
        q == TableQueueOf(tr, nid)
    IN  IF ~rebroadcast THEN tr
        ELSE IF nid \notin DOMAIN tnn \/ tnn[nid].leaving THEN tr
        ELSE IF OverThreshold(isBulkSync, q) THEN tr
        ELSE MapPut(tr, nid,
                    QueueBroadcast(q, [msg |-> encodeRawMessage("TableEvent", data),
                                       id |-> nid, tname |-> tEvent.TableName,
                                       key |-> tEvent.Key]))

\* Variant of FromThisNode: no table message is taken for the node's own.
FromThisNodeNever(tEvent) == FALSE

\* delegate.go:272-275: "Ignore messages that this node generated."
FromThisNode(tEvent) == tEvent.NodeName = LocalNode

\* handleTableMessage (delegate.go:265-306) on a payload that decodes.
HandleTableMessageStep(data, isBulkSync) ==
    LET tEvent == data.v
    IN  IF FromThisNode(tEvent)
        THEN UNCHANGED <<networkClock, tableClock, storeVars, written, last,
                         tableRebroadcasts>>
        ELSE /\ HandleTableEventStep(tEvent, isBulkSync)
             /\ tableRebroadcasts' =
                   TableRebroadcastsAfter(tableRebroadcasts, thisNodeNetworks, data,
                                          isBulkSync,
                                          CallTableEvent(tEvent, isBulkSync).out.ret)

HandleTableMessage ==
    /\ AtMessage("TableEvent")
    /\ HandleTableMessageStep(Head(work).buf.data, Head(work).isBulkSync)
    /\ work' = Tail(work)
    /\ UNCHANGED <<received, nodeBroadcasts, networkBroadcasts, ackVars>>

\* Variant of CompoundTasks: the parts are handled as gossip.
CompoundTasksAsGossip(parts, isBulkSync) ==
    [i \in 1..Len(parts) |-> MessageTask(parts[i], FALSE)]

\* delegate.go:259-262: handleMessage(part, isBulkSync) for each part.
CompoundTasks(parts, isBulkSync) ==
    [i \in 1..Len(parts) |-> MessageTask(parts[i], isBulkSync)]

\* handleCompound (delegate.go:251-263) on a payload that decodes.
HandleCompound ==
    /\ AtMessage("Compound")
    /\ work' = CompoundTasks(Head(work).buf.data.v, Head(work).isBulkSync) \o Tail(work)
    /\ UNCHANGED <<networkClock, tableClock, storeVars, written, last>>
    /\ UNCHANGED <<received, queueVars, ackVars>>

\* Variant of BulkSyncTasks: the reply is decided before the payload is
\* handled.
BulkSyncTasksReplyFirst(bsm) == <<ReplyTask(bsm), MessageTask(bsm.Payload, TRUE)>>

\* delegate.go:363-387: handleMessage(bsm.Payload, true), then the reply.
BulkSyncTasks(bsm) == <<MessageTask(bsm.Payload, TRUE), ReplyTask(bsm)>>

\* handleBulkSync (delegate.go:352-363) on a payload that decodes.
HandleBulkSync ==
    /\ AtMessage("BulkSync")
    /\ LET bsm == Head(work).buf.data.v
       IN  /\ tableClock' = IF bsm.LTime > 0 THEN Witness(tableClock, bsm.LTime)
                            ELSE tableClock
           /\ work' = BulkSyncTasks(bsm) \o Tail(work)
    /\ UNCHANGED <<networkClock, storeVars, written, last>>
    /\ UNCHANGED <<received, queueVars, ackVars>>

\* Variant of RepliesTo: every bulk sync is answered.
RepliesToAlways(bsm) == TRUE

\* delegate.go:366: "Don't respond to a bulk sync which was not unsolicited"
RepliesTo(bsm) == bsm.Unsolicited

\* Variant of AckBulkSync: the channel is closed and its entry kept.
AckBulkSyncKeepEntry(tbl, cl, name) ==
    IF name \in DOMAIN tbl
    THEN [tbl |-> tbl, closed |-> cl \cup {tbl[name]}]
    ELSE [tbl |-> tbl, closed |-> cl]

\* delegate.go:367-374: the acknowledgment channel of the sender is closed
\* and its entry deleted.
AckBulkSync(tbl, cl, name) ==
    IF name \in DOMAIN tbl
    THEN [tbl |-> [n \in DOMAIN tbl \ {name} |-> tbl[n]], closed |-> cl \cup {tbl[name]}]
    ELSE [tbl |-> tbl, closed |-> cl]

\* handleBulkSync (delegate.go:365-387) after the payload was handled.
BulkSyncReply ==
    /\ work # <<>>
    /\ Head(work).task = "reply"
    /\ LET bsm == Head(work).buf.data.v
           ack == AckBulkSync(bulkSyncAckTbl, closed, bsm.NodeName)
       IN  IF RepliesTo(bsm)
           THEN /\ sent' = Append(sent, [networks |-> bsm.Networks,
                                         node |-> bsm.NodeName,
                                         unsolicited |-> FALSE])
                /\ UNCHANGED <<bulkSyncAckTbl, closed>>
           ELSE /\ bulkSyncAckTbl' = ack.tbl
                /\ closed' = ack.closed
                /\ sent' = sent
    /\ work' = Tail(work)
    /\ UNCHANGED <<networkClock, tableClock, storeVars, written, last>>
    /\ UNCHANGED <<received, queueVars, wait>>

\* What a message step leaves alone.
MessageFrame == UNCHANGED <<histVars, concVars, scenVars, syncVars>>

(* ------------------------- one message received ------------------------ *)

\* The events of the messages: node A leaving and joining, joining and
\* leaving the network, creating and deleting the key, at the first and at
\* the last time; and a table event the local node generated itself.
MessageTimes == {1, MaxLTime}

LocalTableEvent ==
    [LTime |-> MaxLTime, NodeName |-> LocalNode, NetworkID |-> "N1",
     TableName |-> "T1", Key |-> "k1", Value |-> "v1", Type |-> "Create",
     ResidualReapTime |-> 0]

MessageNodeEvents ==
    {nEvent \in NodeEvents : nEvent.NodeName = "A" /\ nEvent.LTime \in MessageTimes}

MessageNetworkEvents ==
    {nEvent \in NetworkEvents : nEvent.NodeName = "A" /\ nEvent.LTime \in MessageTimes}

MessageTableEvents ==
    {tEvent \in GossipTableEvents :
        /\ tEvent.NodeName = "A"
        /\ tEvent.Type \in {"Create", "Delete"}
        /\ tEvent.LTime \in MessageTimes}
    \cup {LocalTableEvent}

\* The envelopes of the events.
NodeEventBufs == {encodeRawMessage("NodeEvent", Encoded(e)) : e \in MessageNodeEvents}

NetworkEventBufs == {encodeRawMessage("NetworkEvent", Encoded(e)) : e \in MessageNetworkEvents}

TableEventBufs == {encodeRawMessage("TableEvent", Encoded(e)) : e \in MessageTableEvents}

EventBufs == NodeEventBufs \cup NetworkEventBufs \cup TableEventBufs

\* Buffers that are dropped: one that decodeMessage fails on, one with a type
\* tag handleMessage has no case for (an unassigned one, and PushPull), and
\* one of each handled type whose payload does not decode.
UnknownTypeBufs ==
    {encodeRawMessage("Unassigned", Undecodable),
     encodeRawMessage("PushPull", Encoded(NoPushPull))}

BadPayloadBufs(types) == {encodeRawMessage(t, Undecodable) : t \in types}

BadEventBufs ==
    {BadBuf} \cup UnknownTypeBufs
    \cup BadPayloadBufs({"NodeEvent", "NetworkEvent", "TableEvent"})

\* The buffers that are no compound and no bulk sync.
SingleBufs == EventBufs \cup BadEventBufs

\* A compound of a node event, a network event and a table event.
ScenarioCompounds ==
    {encodeRawMessage("Compound", Encoded(<<n, w, t>>)) :
        n \in NodeEventBufs, w \in NetworkEventBufs, t \in TableEventBufs}

\* A compound cut short after its first part.
TruncatedCompounds ==
    {encodeRawMessage("Compound", Truncated(<<t>>)) : t \in TableEventBufs}

\* Compound messages of at most MaxParts parts.
CompoundBufs ==
    {encodeRawMessage("Compound", Encoded(parts)) : parts \in SeqsUpTo(SingleBufs, MaxParts)}
    \cup ScenarioCompounds \cup TruncatedCompounds

\* Bulk syncs of node A for the network: a first message or a response, with
\* or without a time, their payload a compound of table events.
TableCompoundBufs ==
    {encodeRawMessage("Compound", Encoded(parts)) :
        parts \in SeqsUpTo(TableEventBufs \cup BadPayloadBufs({"TableEvent"}), MaxParts)}

BulkSyncMessages ==
    [LTime : {0, MaxLTime}, Unsolicited : BOOLEAN, NodeName : {"A"},
     Networks : {<<"N1">>}, Payload : TableCompoundBufs \cup TruncatedCompounds]

BulkSyncBufs ==
    {encodeRawMessage("BulkSync", Encoded(bsm)) : bsm \in BulkSyncMessages}
    \cup BadPayloadBufs({"BulkSync"})

Bufs == {EmptyBuf} \cup SingleBufs \cup CompoundBufs \cup BulkSyncBufs

\* No buffer has been received, or it was ignored or dropped whole by
\* NotifyMsg and handleMessage.
DroppedWhole(buf) == IF buf \in {NoBuf, EmptyBuf} THEN TRUE ELSE Dropped(buf)

\* The node is a member of the network, bulk-synced or not yet, with node A,
\* alive and a member too.
InitMessage ==
    /\ InitCommon
    /\ nodes = [name \in {"A"} |-> [ltime |-> 0, state |-> "active"]]
    /\ networks = [name \in {"A"} |->
                     [nid \in NetworkIDs |-> [ltime |-> 0, leaving |-> FALSE, reapTime |-> 0]]]
    /\ thisNodeNetworks \in
          {[nid \in NetworkIDs |-> LocalNetwork(FALSE, s)] : s \in BOOLEAN}
    /\ networkClock = LocalClock(thisNodeNetworks)
    /\ networkNodes = [nid \in NetworkIDs |-> {LocalNode, "A"}]

\* One message that reaches a handler, after any that were dropped whole.
ReceiveMessage ==
    /\ work = <<>>
    /\ DroppedWhole(received)
    /\ \E buf \in Bufs : NotifyMsg(buf)
    /\ UNCHANGED <<networkClock, tableClock, storeVars, written, last>>
    /\ UNCHANGED <<queueVars, ackVars>>
    /\ MessageFrame

NextMessage ==
    \/ ReceiveMessage
    \/ DropMessage /\ MessageFrame
    \/ HandleNodeMessage /\ MessageFrame
    \/ HandleNetworkMessage /\ MessageFrame
    \/ HandleTableMessage /\ MessageFrame
    \/ HandleCompound /\ MessageFrame
    \/ HandleBulkSync /\ MessageFrame
    \/ BulkSyncReply /\ MessageFrame

SpecMessage == InitMessage /\ [][NextMessage]_vars

(* ======================= properties of the handlers ===================== *)

\* The membership check as the specification words it: the local node is a
\* member of the event's network, that membership is not leaving, and the
\* originating node is in the network's current member set.
LocalMember(tEvent) == tEvent.NetworkID \in DOMAIN thisNodeNetworks

LocalLeaving(tEvent) == LocalMember(tEvent) /\ thisNodeNetworks[tEvent.NetworkID].leaving

OriginMember(tEvent) ==
    /\ tEvent.NetworkID \in DOMAIN networkNodes
    /\ tEvent.NodeName \in networkNodes[tEvent.NetworkID]

Admitted(tEvent) == LocalMember(tEvent) /\ ~LocalLeaving(tEvent) /\ OriginMember(tEvent)

\* The event's key has an entry (live or tombstone) in the store.
Known(tEvent) == EventKey(tEvent) \in DOMAIN entries

\* The event's key has a live entry in the store.
KnownLive(tEvent) == Known(tEvent) /\ ~entries[EventKey(tEvent)].deleting

\* An event handleTableEvent accepts: admitted, and newer than what is stored.
Accepted(tEvent) ==
    Admitted(tEvent) /\ (Known(tEvent) => entries[EventKey(tEvent)].ltime < tEvent.LTime)

InSync(tEvent) == LocalMember(tEvent) /\ thisNodeNetworks[tEvent.NetworkID].inSync

TableCall == last.op = "handleTableEvent"

(* ---- C1 ---- *)

\* C1, as stated: whatever was delivered to handleTableEvent for a key, the
\* stored entry's Lamport time is the greatest time ever delivered for it.
C1_StoredTimeIsMaxDelivered ==
    \A k \in DOMAIN entries : entries[k].ltime = maxDelivered[k]

\* C1, amended: a key has an entry iff an event for it passed the membership
\* check, and then the stored time is the greatest time delivered among the
\* events that passed it, and the stored value and deleting flag are those of
\* the first delivered event carrying that time.
C1_StoredIsTopAdmitted ==
    /\ DOMAIN entries = DOMAIN topAdmitted
    /\ \A k \in DOMAIN entries :
          /\ entries[k].ltime = topAdmitted[k].LTime
          /\ entries[k].value = topAdmitted[k].Value
          /\ entries[k].deleting = (topAdmitted[k].Type = "Delete")

\* C1 witness: the entry holds the greatest time, and the last delivery (an
\* older event or a duplicate, arriving after it) was dropped as stale.
C1_Witness ==
    \E k \in DOMAIN entries :
        /\ entries[k].ltime = MaxLTime
        /\ maxDelivered[k] = MaxLTime
        /\ TableCall /\ last.entryPresent /\ ~last.applied

(* ---- C2 ---- *)

\* The store keeps a record of the event's subject with the event's own
\* Lamport time: the event, or one of its time about that subject, was applied.
TableEventApplied(tEvent) ==
    Known(tEvent) /\ entries[EventKey(tEvent)].ltime = tEvent.LTime

NetworkEventApplied(nEvent) ==
    /\ nEvent.NodeName \in DOMAIN networks
    /\ nEvent.NetworkID \in DOMAIN networks[nEvent.NodeName]
    /\ networks[nEvent.NodeName][nEvent.NetworkID].ltime = nEvent.LTime

NodeEventApplied(nEvent) ==
    nEvent.NodeName \in DOMAIN nodes /\ nodes[nEvent.NodeName].ltime = nEvent.LTime

\* C2: in every state, delivering again to its handler a table, network or
\* node event whose subject is stored with the event's Lamport time leaves the
\* node maps, the network maps, the entry store and the clock as they are,
\* writes no WatchEvent and returns false (so that the caller queues nothing).
C2_RedeliveryIsNoOp ==
    /\ \A tEvent \in TableEvents, isBulkSync \in BOOLEAN :
          TableEventApplied(tEvent) =>
             LET r == CallTableEvent(tEvent, isBulkSync)
             IN  /\ r.clock = tableClock
                 /\ r.out.entries = entries
                 /\ r.out.written = <<>>
                 /\ r.out.ret = FALSE
    /\ \A nEvent \in NetworkEvents :
          NetworkEventApplied(nEvent) =>
             LET r == CallNetworkEvent(nEvent)
             IN  /\ r.clock = networkClock
                 /\ r.out.nodes = nodes
                 /\ r.out.networks = networks
                 /\ r.out.networkNodes = networkNodes
                 /\ r.out.entries = entries
                 /\ r.out.written = <<>>
                 /\ r.out.ret = FALSE
    /\ \A nEvent \in NodeEvents :
          NodeEventApplied(nEvent) =>
             LET r == CallNodeEvent(nEvent)
             IN  /\ r.clock = networkClock
                 /\ r.out.nodes = nodes
                 /\ r.out.ret = FALSE

\* C2 witness: a table event met an entry and was dropped, the entry holding a
\* time below the clock's; a remote node's network record and a node record
\* with the times of applied events are there as well.
C2_Witness ==
    /\ TableCall /\ last.entryPresent /\ ~last.applied /\ ~last.ret
    /\ written = <<>>
    /\ \E k \in DOMAIN entries : entries[k].ltime = 1
    /\ \E name \in DOMAIN networks : \E nid \in DOMAIN networks[name] :
          networks[name][nid].ltime >= 1
    /\ \E name \in DOMAIN nodes : nodes[name].ltime >= 1

(* ---- C3 ---- *)

\* C3: no step removes an entry or lowers its Lamport time; and in every
\* state, a call of handleTableEvent with an event whose time is less than or
\* equal to the stored time leaves the entry store as it is, while a call that
\* changes an existing entry carries a time strictly greater than the stored
\* time and stores that time.
C3_EntryTimeOnlyIncreases ==
    /\ [][\A k \in DOMAIN entries :
             k \in DOMAIN entries' /\ entries'[k].ltime >= entries[k].ltime]_vars
    /\ [](\A tEvent \in TableEvents, isBulkSync \in BOOLEAN :
             LET k == EventKey(tEvent)
                 after == CallTableEvent(tEvent, isBulkSync).out.entries
             IN  Known(tEvent) =>
                   /\ tEvent.LTime <= entries[k].ltime => after = entries
                   /\ after # entries =>
                        /\ tEvent.LTime > entries[k].ltime
                        /\ after[k].ltime = tEvent.LTime)

\* C3 witness: an entry that was present has been overwritten by a newer event.
C3_Witness ==
    \E k \in DOMAIN entries :
        /\ TableCall /\ last.entryPresent /\ last.applied
        /\ entries[k].ltime = MaxLTime

(* ---- C4 ---- *)

\* C4: in every state, a call of handleTableEvent leaves the entry store
\* unchanged, writes no WatchEvent and returns false whenever the local node
\* is not a member of the event's network, or that membership is leaving, or
\* the originating node is not in the network's member set.
C4_RejectedOutsideNetwork ==
    \A tEvent \in TableEvents, isBulkSync \in BOOLEAN :
        (~LocalMember(tEvent) \/ LocalLeaving(tEvent) \/ ~OriginMember(tEvent))
        => LET out == CallTableEvent(tEvent, isBulkSync).out
           IN  out.entries = entries /\ out.written = <<>> /\ out.ret = FALSE

\* C4 witness: a table event was handled, and nothing stored, while the local
\* membership, with all originating nodes members and the network in sync, was
\* leaving.
C4_Witness ==
    /\ TableCall /\ ~last.ret /\ entries = EmptyMap /\ tableClock = MaxLTime
    /\ \E nid \in DOMAIN thisNodeNetworks :
          /\ thisNodeNetworks[nid].leaving /\ thisNodeNetworks[nid].inSync
          /\ networkNodes[nid] = RemoteNodes

(* ---- C5 ---- *)

\* C5: in every state, handleTableEvent called with isBulkSync = false on a
\* Delete for an unknown key returns false, whatever inSync and the residual
\* reap time are.
C5_UnknownDeleteNotRebroadcastOutsideBulkSync ==
    \A tEvent \in TableEvents :
        (tEvent.Type = "Delete" /\ ~Known(tEvent))
        => CallTableEvent(tEvent, FALSE).out.ret = FALSE

\* C5 witness: outside bulk sync, in a network that is in sync, a Delete for an
\* unknown key was stored with a reap time above a sixth of the interval, and
\* false was returned.
C5_Witness ==
    /\ TableCall /\ ~last.isBulkSync /\ ~last.entryPresent /\ last.applied /\ ~last.ret
    /\ \E k \in DOMAIN entries :
          /\ entries[k].deleting
          /\ 6 * entries[k].reapTime > ReapEntryInterval
          /\ thisNodeNetworks[k[1]].inSync

(* ---- C6 ---- *)

\* C6, as stated: a step in which a Delete for an unknown key is delivered
\* via bulk sync and stored returns true (rebroadcast) iff the network is in
\* sync and the event's residual reap seconds exceed a sixth of the entry
\* reap interval.
C6_UnknownDeleteRebroadcastByResidual ==
    [][(/\ last'.op = "handleTableEvent" /\ last'.isBulkSync
        /\ ~last'.entryPresent /\ last'.applied)
       => \A tEvent \in TableEvents :
             (tEvent.Type = "Delete" /\ DeliverRecordedTableEvent(tEvent, TRUE))
             => (last'.ret <=> (InSync(tEvent)
                                /\ 6 * tEvent.ResidualReapTime > ReapEntryInterval))]_vars

\* C6, amended: ... iff the network is in sync and the reap time stored for
\* the tombstone exceeds a sixth of the entry reap interval, the stored reap
\* time being the event's residual reap seconds, or the whole configured
\* interval when the event carries none (zero).
C6_UnknownDeleteRebroadcastByStoredReapTime ==
    \A tEvent \in TableEvents :
        (tEvent.Type = "Delete" /\ ~Known(tEvent) /\ Admitted(tEvent))
        => LET out == CallTableEvent(tEvent, TRUE).out
               reapTime == IF tEvent.ResidualReapTime = 0 THEN ReapEntryInterval
                           ELSE tEvent.ResidualReapTime
           IN  /\ out.entries[EventKey(tEvent)].reapTime = reapTime
               /\ out.ret <=> (InSync(tEvent) /\ 6 * reapTime > ReapEntryInterval)

\* C6 witness: via bulk sync, in a network that is in sync, a Delete for an
\* unknown key with exactly a sixth of the interval left was stored and not
\* rebroadcast.
C6_Witness ==
    /\ TableCall /\ last.isBulkSync /\ ~last.entryPresent /\ last.applied /\ ~last.ret
    /\ \E k \in DOMAIN entries :
          /\ entries[k].deleting
          /\ 6 * entries[k].reapTime = ReapEntryInterval
          /\ thisNodeNetworks[k[1]].inSync

(* ---- C7 ---- *)

\* The WatchEvent about the event's key with this value and previous value.
WatchEventOf(tEvent, value, prevValue) ==
    [Table |-> tEvent.TableName, NetworkID |-> tEvent.NetworkID, Key |-> tEvent.Key,
     Value |-> value, Prev |-> prevValue]

\* C7: in every state, an accepted Create or Update writes exactly one
\* WatchEvent, with the event's value and, as previous value, the stored value
\* if the entry was known and no tombstone (none otherwise); an accepted Delete
\* writes nothing if the entry was unknown or a tombstone, and otherwise
\* exactly one WatchEvent without value whose previous value is the value that
\* was stored.
C7_WatchEventsFollowLocalChange ==
    \A tEvent \in TableEvents, isBulkSync \in BOOLEAN :
        Accepted(tEvent) =>
            LET out == CallTableEvent(tEvent, isBulkSync).out
                stored == entries[EventKey(tEvent)].value
            IN  IF tEvent.Type \in {"Create", "Update"}
                THEN out.written =
                       << WatchEventOf(tEvent, tEvent.Value,
                                       IF KnownLive(tEvent) THEN stored ELSE Nil) >>
                ELSE IF KnownLive(tEvent)
                THEN out.written = << WatchEventOf(tEvent, Nil, stored) >>
                ELSE out.written = <<>>

\* C7 witness: a Delete carrying one value tombstoned a live entry holding
\* another, and the WatchEvent written has the stored value as previous value.
C7_Witness ==
    /\ TableCall /\ last.entryPresent /\ last.applied
    /\ Len(written) = 1
    /\ written[1].Value = Nil
    /\ \E k \in DOMAIN entries :
          /\ entries[k].deleting
          /\ entries[k].value = "v2"
          /\ written[1].Prev = "v1"

(* ---- C8 ---- *)

\* The live value of an entry: none for no entry and for a tombstone.
LiveValue(e) == IF e = NoEntry \/ e.deleting THEN Nil ELSE e.value

\* The WatchEvents that tell the transition of key k from entry prior to
\* entry now: none when no live value is involved, else exactly one, with
\* the live value left by the transition and the live value it replaced.
TransitionEvents(k, prior, now) ==
    IF LiveValue(prior) = Nil /\ LiveValue(now) = Nil
    THEN <<>>
    ELSE << [Table |-> k[2], NetworkID |-> k[1], Key |-> k[3],
             Value |-> LiveValue(now), Prev |-> LiveValue(prior)] >>

\* C8: at most one caller is past nDB.Lock() at a time; between a caller's
\* lookup and its notification no step of another caller changes the entry
\* store or writes a WatchEvent, and what the caller looked up is still what
\* is stored when it stores; and the WatchEvents a caller writes are exactly
\* those of the latest transition of the key, the previous value being the
\* live value that transition replaced.
C8_NotificationsFollowTransitions ==
    /\ [](\A t, u \in Callers :
             /\ (t # u /\ pc[t] \in LockedPositions) => pc[u] \notin LockedPositions
             /\ pc[t] \in LockedPositions => lock = t
             /\ pc[t] = "store" =>
                  LET k == EventKey(call[t].tEvent)
                  IN  /\ call[t].entryPresent <=> k \in DOMAIN entries
                      /\ call[t].entryPresent => call[t].prev = entries[k])
    /\ [][\A t \in Callers :
             /\ (pc[t] \in {"store", "notify"} /\ pc'[t] = pc[t])
                   => entries' = entries /\ written' = written
             /\ (pc[t] = "notify" /\ pc'[t] = "unlock")
                   => LET k == EventKey(call[t].tEvent)
                      IN  /\ k \in DOMAIN before
                          /\ written' = TransitionEvents(k, before[k], entries[k])]_vars

\* C8 witness: a caller has overwritten a live entry and written the
\* WatchEvent, still holding the lock, while the other caller, with an event
\* for the same key, waits for the lock.
C8_Witness ==
    \E t, u \in Callers :
        /\ pc[t] = "unlock" /\ call[t].applied /\ call[t].entryPresent
        /\ pc[u] = "lock"
        /\ EventKey(call[u].tEvent) = EventKey(call[t].tEvent)
        /\ Len(written) = 1 /\ written[1].Prev # Nil /\ written[1].Value # Nil
        /\ written[1].Prev # written[1].Value

(* ---- C9 ---- *)

\* C9: in the scenario, each duplicate of the Create leaves the entry store
\* and the table clock as they are, writes no WatchEvent and returns false;
\* and once the Delete (time greater than the Create's, residual reap time
\* r > 0) is handled, the entry is a tombstone with the Delete's time and
\* reap time r, and the WatchEvents written since the start are the Create's
\* one and, for the delete, exactly one, without value and with the value the
\* Create stored as previous value.
C9_CreateDuplicatesDelete ==
    /\ [][(phase = "created" /\ phase' = "created") =>
             /\ entries' = entries
             /\ tableClock' = tableClock
             /\ written' = <<>>
             /\ last'.ret = FALSE]_vars
    /\ [](phase = "done" =>
             LET k == EventKey(scen.create)
             IN  /\ EventKey(scen.delete) = k
                 /\ k \in DOMAIN entries
                 /\ entries[k].deleting
                 /\ entries[k].ltime = scen.delete.LTime
                 /\ entries[k].reapTime = scen.delete.ResidualReapTime
                 /\ written = << WatchEventOf(scen.delete, Nil, scen.create.Value) >>
                 /\ scen.log = << WatchEventOf(scen.create, scen.create.Value, Nil),
                                  WatchEventOf(scen.delete, Nil, scen.create.Value) >>)

\* C9 witness: the Create, MaxDup duplicates and then a Delete carrying
\* another value than the Create have been handled.
C9_Witness ==
    /\ phase = "done"
    /\ scen.dups = MaxDup
    /\ scen.delete.Value # scen.create.Value
    /\ scen.delete.ResidualReapTime = ReapEntryInterval \div 6

(* ---- C10 ---- *)

\* C10: no step lowers the network clock or the table clock; and in every
\* state, handleNodeEvent and handleNetworkEvent leave a network clock, and
\* handleTableEvent a table clock, that is at least the event's Lamport time,
\* whether the handler applies the event or rejects it.
C10_ClocksWitnessEveryEvent ==
    /\ [][networkClock' >= networkClock /\ tableClock' >= tableClock]_vars
    /\ [](/\ \A nEvent \in NodeEvents :
                CallNodeEvent(nEvent).clock >= Max(networkClock, nEvent.LTime)
          /\ \A nEvent \in NetworkEvents :
                CallNetworkEvent(nEvent).clock >= Max(networkClock, nEvent.LTime)
          /\ \A tEvent \in TableEvents, isBulkSync \in BOOLEAN :
                CallTableEvent(tEvent, isBulkSync).clock >= Max(tableClock, tEvent.LTime))

\* C10 witness: both clocks are at the greatest time although no event was
\* ever applied: no entry, no network record, node A still at time 0, and the
\* last call a rejected one.
C10_Witness ==
    /\ networkClock = MaxLTime /\ tableClock = MaxLTime
    /\ last.op # "none" /\ ~last.applied
    /\ entries = EmptyMap
    /\ \A name \in DOMAIN networks : networks[name] = EmptyMapOfNetworks
    /\ \A name \in DOMAIN nodes : nodes[name].ltime = 0

(* ---- C11 ---- *)

\* What a call of handleNetworkEvent leaves equals the store it started from.
NetworkCallChangedNothing(out) ==
    /\ out.nodes = nodes
    /\ out.networks = networks
    /\ out.networkNodes = networkNodes
    /\ out.entries = entries
    /\ out.written = <<>>

\* C11: in every state, handleNetworkEvent given an event that names the
\* local node changes nothing in the store and returns false; given any
\* event, it leaves no record of the local node among the remote network
\* records and keeps the local node in the member set of every network it
\* is a member of; and no handleNetworkEvent step changes thisNodeNetworks.
C11_LocalMembershipNotOverwritten ==
    /\ [](\A nEvent \in NetworkEvents :
             LET out == CallNetworkEvent(nEvent).out
             IN  /\ nEvent.NodeName = LocalNode =>
                       NetworkCallChangedNothing(out) /\ out.ret = FALSE
                 /\ LocalNode \notin DOMAIN out.networks
                 /\ \A nid \in DOMAIN thisNodeNetworks :
                       LocalNode \in NetworkNodesOf(networkNodes, nid)
                          => LocalNode \in NetworkNodesOf(out.networkNodes, nid))
    /\ [][last'.op = "handleNetworkEvent" => thisNodeNetworks' = thisNodeNetworks]_vars

\* C11 witness: the local node is a member of a network, and the last event
\* handled was a Leave of that network naming the local node, carrying the
\* greatest time.
C11_Witness ==
    /\ last.op = "handleNetworkEvent" /\ ~last.ret
    /\ heard.NodeName = LocalNode /\ heard.Type = "Leave" /\ heard.LTime = MaxLTime
    /\ heard.NetworkID \in DOMAIN thisNodeNetworks
    /\ ~thisNodeNetworks[heard.NetworkID].leaving
    /\ LocalNode \in networkNodes[heard.NetworkID]

(* ---- C12 ---- *)

\* The store holds a record of the event's (node, network) pair.
PairKnown(nEvent) ==
    /\ nEvent.NodeName \in DOMAIN networks
    /\ nEvent.NetworkID \in DOMAIN networks[nEvent.NodeName]

PairRecord(nEvent) == networks[nEvent.NodeName][nEvent.NetworkID]

\* C12: in every state, for an event about a known pair, handleNetworkEvent
\* returns true only if the event's time is strictly greater than the stored
\* time, and for a time less than or equal to it returns false and changes
\* nothing; and no step removes a pair's record or lowers its time.
C12_NetworkTimeOnlyIncreases ==
    /\ [](\A nEvent \in NetworkEvents :
             PairKnown(nEvent) =>
                LET out == CallNetworkEvent(nEvent).out
                IN  /\ out.ret => nEvent.LTime > PairRecord(nEvent).ltime
                    /\ nEvent.LTime <= PairRecord(nEvent).ltime =>
                          NetworkCallChangedNothing(out) /\ out.ret = FALSE)
    /\ [][\A name \in DOMAIN networks : \A nid \in DOMAIN networks[name] :
             /\ name \in DOMAIN networks'
             /\ nid \in DOMAIN networks'[name]
             /\ networks'[name][nid].ltime >= networks[name][nid].ltime]_vars

\* C12 witness: an event about a known pair was dropped as stale, the record
\* holding the greatest time, set by an earlier event that replaced an older
\* record.
C12_Witness ==
    /\ last.op = "handleNetworkEvent" /\ last.entryPresent /\ ~last.applied
    /\ PairKnown(heard)
    /\ PairRecord(heard).ltime = MaxLTime
    /\ heard.LTime <= MaxLTime
    /\ PairRecord(heard).leaving /\ heard.Type = "Join"

(* ---- C13 ---- *)

\* C13, as stated: a step of handleNetworkEvent given a Leave for a pair it
\* has no record of, or a Join for such a pair from a node that is not in
\* nDB.nodes, returns false and leaves the store unchanged.
C13_UnknownPairDropped ==
    [][(/\ last'.op = "handleNetworkEvent"
        /\ heard'.Type \in NetworkEventTypes
        /\ ~PairKnown(heard')
        /\ heard'.Type = "Leave" \/ ~InNodes(nodes, heard'.NodeName))
       => /\ last'.ret = FALSE
          /\ UNCHANGED storeVars]_vars

(* ---- C14 ---- *)

\* C14: in every state, when handleNetworkEvent returns true the pair's
\* record afterwards carries the event's time; on a Leave it is marked
\* leaving with the configured network reap time and the node is no member of
\* the network any more; on a Join it is not leaving and the node is a member.
C14_AcceptedNetworkEventApplied ==
    \A nEvent \in NetworkEvents :
        LET out == CallNetworkEvent(nEvent).out
            name == nEvent.NodeName
            nid == nEvent.NetworkID
        IN  out.ret =>
              /\ name \in DOMAIN out.networks
              /\ nid \in DOMAIN out.networks[name]
              /\ out.networks[name][nid].ltime = nEvent.LTime
              /\ IF nEvent.Type = "Leave"
                 THEN /\ out.networks[name][nid].leaving
                      /\ out.networks[name][nid].reapTime = ReapNetworkInterval
                      /\ name \notin NetworkNodesOf(out.networkNodes, nid)
                 ELSE /\ ~out.networks[name][nid].leaving
                      /\ name \in NetworkNodesOf(out.networkNodes, nid)

\* C14 witness: a Leave was accepted for a pair that had joined before, and
\* the node is out of the member set, which the local node is still in.
C14_Witness ==
    /\ last.op = "handleNetworkEvent" /\ last.ret /\ last.entryPresent
    /\ heard.Type = "Leave"
    /\ PairKnown(heard) /\ PairRecord(heard).leaving
    /\ PairRecord(heard).reapTime = ReapNetworkInterval
    /\ heard.NetworkID \in DOMAIN networkNodes
    /\ networkNodes[heard.NetworkID] = {LocalNode}

(* ---- C15 ---- *)

\* C15, as stated: a step of handleNodeEvent given an event whose node is
\* not in nDB.nodes ("unknown to memberlist"), or whose time is less than or
\* equal to the node's stored time, returns false and leaves the node maps,
\* the node's stored time and state included, unchanged.
C15_UnknownOrStaleNodeEventDropped ==
    [][(/\ last'.op = "handleNodeEvent"
        /\ heard'.Type \in AllNodeEventTypes
        /\ \/ ~InNodes(nodes, heard'.NodeName)
           \/ nodes[heard'.NodeName].ltime >= heard'.LTime)
       => /\ last'.ret = FALSE
          /\ nodes' = nodes]_vars

(* ---- C16 ---- *)

\* C16: in every state, for an event about a node the node maps hold and
\* with a time greater than the stored one, handleNodeEvent returns true
\* exactly when the node's state changes, and then the state is active after
\* a Join and left after a Leave; it returns false for a Join of an active
\* node, a Leave of a left node and an event of any other type.
C16_NodeEventReportsTransition ==
    \A nEvent \in AllNodeEvents :
        LET out == CallNodeEvent(nEvent).out
            name == nEvent.NodeName
        IN  (name \in DOMAIN nodes /\ nodes[name].ltime < nEvent.LTime) =>
              /\ out.ret <=> out.nodes[name].state # nodes[name].state
              /\ out.ret => out.nodes[name].state =
                               (IF nEvent.Type = "Join" THEN "active" ELSE "left")
              /\ (nEvent.Type = "Join" /\ nodes[name].state = "active") => ~out.ret
              /\ (nEvent.Type = "Leave" /\ nodes[name].state = "left") => ~out.ret
              /\ nEvent.Type \notin {"Join", "Leave"} => ~out.ret

\* C16 witness: a fresh Join of an active node was handled and reported no
\* transition: the node holds the Join's time and is still active.
C16_Witness ==
    /\ last.op = "handleNodeEvent" /\ last.applied /\ ~last.ret
    /\ heard.Type = "Join"
    /\ nodes[heard.NodeName].state = "active"
    /\ nodes[heard.NodeName].ltime = heard.LTime

(* ---- C17 ---- *)

\* The records of a push-pull payload, as a set.
RecordsOf(p) == {p.Networks[i] : i \in 1..Len(p.Networks)}

\* The payload holds at most one record for each (node, network) pair, as a
\* payload built by LocalState does.
OneRecordPerPair(p) ==
    \A i, j \in 1..Len(p.Networks) :
        (/\ p.Networks[i].NodeName = p.Networks[j].NodeName
         /\ p.Networks[i].NetworkID = p.Networks[j].NetworkID) => i = j

\* The store holds a record of r's pair with r's time and leaving flag.
StoredAs(r) ==
    /\ <<r.NodeName, r.NetworkID>> \in RemotePairs(networks)
    /\ networks[r.NodeName][r.NetworkID].ltime = r.LTime
    /\ networks[r.NodeName][r.NetworkID].leaving = r.Leaving

\* C17, as stated: when MergeRemoteState, started on an empty store, has
\* returned, every record of the payload is stored with the payload's time
\* and leaving flag.
C17_MergedStoreEqualsSnapshot ==
    (Merged /\ OneRecordPerPair(merging)) =>
        \A r \in RecordsOf(merging) : StoredAs(r)

\* The records of the payload that handleNetworkEvent keeps: joins of remote
\* nodes that are in nDB.nodes.
KeptRecords(p) ==
    {r \in RecordsOf(p) :
        ~r.Leaving /\ r.NodeName # LocalNode /\ InNodes(nodes, r.NodeName)}

\* C17, amended: when MergeRemoteState, started on an empty store, has
\* returned, the records stored are exactly the payload's records that are
\* not leaving and name a remote node that is in nDB.nodes, each with the
\* payload's time and not leaving; no node has been added to the node maps
\* or changed state, and the sender's stored time is at least the payload's
\* if the sender is in the node maps.
C17_MergedStoreEqualsKnownJoins ==
    (Merged /\ OneRecordPerPair(merging)) =>
        /\ \A r \in KeptRecords(merging) : StoredAs(r)
        /\ RemotePairs(networks) =
              {<<r.NodeName, r.NetworkID>> : r \in KeptRecords(merging)}
        /\ \E ns \in MergeNodeMaps :
              /\ DOMAIN nodes = DOMAIN ns
              /\ \A name \in DOMAIN ns : nodes[name].state = ns[name].state
        /\ merging.NodeName \in DOMAIN nodes =>
              nodes[merging.NodeName].ltime >= merging.LTime

\* C17 witness: a merge has returned whose payload held a join of a node in
\* nDB.nodes, which is stored, and a leaving record of another such node,
\* which is not.
C17_Witness ==
    /\ Merged /\ OneRecordPerPair(merging)
    /\ \E r1, r2 \in RecordsOf(merging) :
          /\ ~r1.Leaving /\ StoredAs(r1)
          /\ r2.Leaving /\ InNodes(nodes, r2.NodeName) /\ r2.NodeName # LocalNode
          /\ <<r2.NodeName, r2.NetworkID>> \notin RemotePairs(networks)

(* ---- C18 ---- *)

\* The step takes the network clock and the store to what the call left.
StoreBecomes(clock, ns, nws, nn, es) ==
    /\ networkClock' = clock
    /\ nodes' = ns
    /\ networks' = nws
    /\ networkNodes' = nn
    /\ entries' = es
    /\ UNCHANGED <<tableClock, thisNodeNetworks>>

\* C18: a MergeRemoteState call changes the store only as handleNodeEvent
\* and handleNetworkEvent do. Decoding the payload changes nothing; the next
\* step leaves what handleNodeEvent leaves for a Join of the sender with the
\* payload's time; the step after record i leaves what handleNetworkEvent
\* leaves for an event with the record's time, node and network, of type
\* Leave when the record is marked leaving and Join otherwise; the records
\* are taken in the payload's order, one per step, and the payload is not
\* changed.
C18_MergeIsHandlerCalls ==
    /\ [][(~Merging /\ Merging') =>
            /\ mergeAt' = 0
            /\ UNCHANGED <<networkClock, tableClock, storeVars>>]_vars
    /\ [][Merging =>
            /\ merging' = merging
            /\ mergeAt' \in {mergeAt, mergeAt + 1}
            /\ mergeAt' <= Len(merging.Networks) + 1
            /\ mergeAt' = mergeAt => UNCHANGED <<networkClock, tableClock, storeVars>>]_vars
    /\ [][(Merging /\ mergeAt = 0 /\ mergeAt' = 1) =>
            LET r == CallNodeEvent([LTime |-> merging.LTime,
                                    NodeName |-> merging.NodeName,
                                    Type |-> "Join"])
            IN  StoreBecomes(r.clock, r.out.nodes, networks, networkNodes, entries)]_vars
    /\ [][(Merging /\ mergeAt >= 1 /\ mergeAt' = mergeAt + 1) =>
            LET n == merging.Networks[mergeAt]
                r == CallNetworkEvent([LTime |-> n.LTime,
                                       NodeName |-> n.NodeName,
                                       NetworkID |-> n.NetworkID,
                                       Type |-> IF n.Leaving THEN "Leave" ELSE "Join"])
            IN  StoreBecomes(r.clock, nodes, r.out.networks, r.out.networkNodes,
                             r.out.entries)]_vars

\* C18 witness: a merge has returned after its second record, a Leave, was
\* accepted for the pair its first record had joined, and the sender's Join
\* had raised the sender's stored time.
C18_Witness ==
    /\ Merged /\ Len(merging.Networks) = 2
    /\ last.op = "handleNetworkEvent" /\ last.ret /\ last.entryPresent
    /\ merging.Networks[2].Leaving /\ ~merging.Networks[1].Leaving
    /\ StoredAs(merging.Networks[2])
    /\ nodes[merging.NodeName].ltime = merging.LTime

(* ---- C19 ---- *)

\* The step of LocalState that takes the snapshot.
SnapshotTaken == lsPc = "snapshot" /\ lsPc' = "idle"

\* C19: the snapshot LocalState returns holds exactly one record for each
\* network of the local node, owned by the local node, and one for each
\* (node, network) pair nDB.networks has a record of, each with the time and
\* the leaving flag stored when the snapshot is taken, and nothing else; it
\* carries the network clock and the local node's name, and taking it changes
\* nothing in the store.
C19_SnapshotIsAllKnownMembership ==
    [][SnapshotTaken =>
         /\ pp'.LTime = networkClock
         /\ pp'.NodeName = LocalNode
         /\ Len(pp'.Networks) =
               Cardinality(DOMAIN thisNodeNetworks) + Cardinality(RemotePairs(networks))
         /\ RecordsOf(pp') =
               {[LTime |-> thisNodeNetworks[nid].ltime, NetworkID |-> nid,
                 NodeName |-> LocalNode, Leaving |-> thisNodeNetworks[nid].leaving] :
                    nid \in DOMAIN thisNodeNetworks}
               \cup
               {[LTime |-> networks[pair[1]][pair[2]].ltime, NetworkID |-> pair[2],
                 NodeName |-> pair[1], Leaving |-> networks[pair[1]][pair[2]].leaving] :
                    pair \in RemotePairs(networks)}
         /\ UNCHANGED <<networkClock, storeVars>>]_vars

\* C19 witness: a snapshot was returned with a record of a local network and
\* a record of a remote pair that is leaving, at different times.
C19_Witness ==
    /\ last.op = "LocalState" /\ lsPc = "idle"
    /\ \E r1, r2 \in RecordsOf(pp) :
          /\ r1.NodeName = LocalNode /\ ~r1.Leaving
          /\ r2.NodeName # LocalNode /\ r2.Leaving
          /\ r1.LTime # r2.LTime

(* ---- C20 ---- *)

\* The records a payload holds of the local node's own networks.
LocalRecordsOf(p) == {r \in RecordsOf(p) : r.NodeName = LocalNode}

\* C20, as stated: the snapshot of a LocalState(join = true) call holds every
\* local record with a time strictly greater than the record had before the
\* call and greater than the time of the network event witnessed last before
\* the snapshot is taken.
C20_JoinSnapshotFresherThanWitnessed ==
    [][(SnapshotTaken /\ lsBefore.join) =>
         \A r \in LocalRecordsOf(pp') :
            /\ r.LTime > lsBefore.networks[r.NetworkID].ltime
            /\ heard.Type # "none" => r.LTime > heard.LTime]_vars

\* C20, amended: every stored remote record's time and the time of the
\* network event witnessed last are at most the network clock; the step of
\* LocalState(join = true) that raises the times leaves the network clock and
\* every local record's time strictly greater than the record's time and the
\* network clock were before; with join = false that step changes no stored
\* time; the snapshot step changes no stored time, and after join = true
\* holds every local record with a time strictly greater than the record's
\* time and the network clock before the call.
C20_JoinRaisesLocalTimes ==
    /\ [](/\ heard.Type # "none" => heard.LTime <= networkClock
          /\ \A pair \in RemotePairs(networks) :
                networks[pair[1]][pair[2]].ltime <= networkClock)
    /\ [][(lsPc = "idle" /\ lsPc' = "snapshot") =>
            /\ networks' = networks
            /\ DOMAIN thisNodeNetworks' = DOMAIN thisNodeNetworks
            /\ IF lsBefore'.join
               THEN /\ networkClock' > networkClock
                    /\ \A nid \in DOMAIN thisNodeNetworks :
                          /\ thisNodeNetworks'[nid].ltime > thisNodeNetworks[nid].ltime
                          /\ thisNodeNetworks'[nid].ltime > networkClock
                          /\ thisNodeNetworks'[nid].leaving = thisNodeNetworks[nid].leaving
               ELSE /\ networkClock' = networkClock
                    /\ thisNodeNetworks' = thisNodeNetworks]_vars
    /\ [][SnapshotTaken =>
            /\ UNCHANGED <<networkClock, thisNodeNetworks, networks>>
            /\ lsBefore.join =>
                  \A r \in LocalRecordsOf(pp') :
                     /\ r.LTime > lsBefore.networks[r.NetworkID].ltime
                     /\ r.LTime > lsBefore.clock]_vars

\* C20 witness: a LocalState(join = true) call returned its snapshot, whose
\* local record is fresher than before the call, after a network event with
\* that same time was handled between the raise and the snapshot.
C20_Witness ==
    /\ last.op = "LocalState" /\ last.applied /\ lsPc = "idle"
    /\ heard.Type # "none"
    /\ \E r \in LocalRecordsOf(pp) :
          /\ r.LTime > lsBefore.networks[r.NetworkID].ltime
          /\ r.LTime = heard.LTime
          /\ lsBefore.clock < heard.LTime

(* ------------------------------------------------------------------------
   Claims about the messages: handleMessage and the handlers below it.
   ------------------------------------------------------------------------ *)

\* handleMessage is about to handle a buffer of the type, envelope and
\* payload decodable.
Handling(mType) ==
    /\ work # <<>>
    /\ Head(work).task = "handleMessage"
    /\ Head(work).buf.mType = mType
    /\ Head(work).buf.data.ok

\* The step leaves the outcome the node event handler computes in the
\* current state, the network event handler, the table event handler with
\* the flag (no change for a table event of the local node).
NodeEventHandled(nEvent) ==
    LET r == CallNodeEvent(nEvent)
    IN  /\ networkClock' = r.clock
        /\ nodes' = r.out.nodes
        /\ written' = <<>>
        /\ last'.op = "handleNodeEvent" /\ last'.ret = r.out.ret
        /\ UNCHANGED <<tableClock, networks, thisNodeNetworks, networkNodes, entries>>

NetworkEventHandled(nEvent) ==
    LET r == CallNetworkEvent(nEvent)
    IN  /\ networkClock' = r.clock
        /\ networks' = r.out.networks
        /\ networkNodes' = r.out.networkNodes
        /\ entries' = r.out.entries
        /\ written' = r.out.written
        /\ last'.op = "handleNetworkEvent" /\ last'.ret = r.out.ret
        /\ UNCHANGED <<tableClock, nodes, thisNodeNetworks>>

TableEventHandled(tEvent, isBulkSync) ==
    LET r == CallTableEvent(tEvent, isBulkSync)
    IN  IF tEvent.NodeName = LocalNode
        THEN UNCHANGED <<networkClock, tableClock, storeVars, written, last>>
        ELSE /\ tableClock' = r.clock
             /\ entries' = r.out.entries
             /\ written' = r.out.written
             /\ last'.op = "handleTableEvent" /\ last'.ret = r.out.ret
             /\ last'.isBulkSync = isBulkSync
             /\ UNCHANGED <<networkClock, nodes, networks, thisNodeNetworks, networkNodes>>

\* C21: a compound message of n parts is handled as n messages, in the order
\* of the parts: handleCompound puts handleMessage(part, isBulkSync) for each
\* part, with the flag it was called with, in front of what was still to do
\* and changes nothing itself; the calls are made from the front; and each
\* event among them leaves what its handler, called with that flag in the
\* state the parts before it left, computes.
C21_CompoundIsItsPartsInOrder ==
    [][ /\ Handling("Compound") =>
            LET parts == Head(work).buf.data.v
                flag == Head(work).isBulkSync
            IN  /\ Len(work') = Len(parts) + Len(work) - 1
                /\ \A i \in 1..Len(parts) :
                      work'[i] = [task |-> "handleMessage", buf |-> parts[i],
                                  isBulkSync |-> flag]
                /\ \A i \in 2..Len(work) : work'[Len(parts) + i - 1] = work[i]
                /\ UNCHANGED <<networkClock, tableClock, storeVars, written, last,
                               queueVars, ackVars>>
        /\ work # <<>> =>
            \E n \in 0..Len(work') :
                /\ Len(work') = n + Len(work) - 1
                /\ \A i \in 2..Len(work) : work'[n + i - 1] = work[i]
        /\ Handling("NodeEvent") =>
            work' = Tail(work) /\ NodeEventHandled(Head(work).buf.data.v)
        /\ Handling("NetworkEvent") =>
            work' = Tail(work) /\ NetworkEventHandled(Head(work).buf.data.v)
        /\ Handling("TableEvent") =>
            /\ work' = Tail(work)
            /\ TableEventHandled(Head(work).buf.data.v, Head(work).isBulkSync)
      ]_vars

\* A compound of a node event, a network event and a table event was handled
\* to its end, and each of the three was applied.
C21_Witness ==
    /\ work = <<>>
    /\ received.mType = "Compound"
    /\ received.data.ok
    /\ Len(received.data.v) = 3
    /\ nodes["A"].ltime = 1
    /\ networks["A"]["N1"].ltime = 1
    /\ entries # EmptyMap
    /\ last.op = "handleTableEvent"

\* A buffer handleMessage cannot handle: the envelope does not decode, the
\* type tag is none of the five, or the payload does not decode.
Undecoded(buf) ==
    \/ buf.mType = "undecodable"
    \/ buf.mType \notin {"NodeEvent", "NetworkEvent", "TableEvent", "BulkSync", "Compound"}
    \/ ~buf.data.ok

\* C22: a buffer that does not decode, or has an unknown type tag, is
\* dropped: handling it changes no clock, no node, network or entry, writes
\* no WatchEvent, queues no broadcast and touches no acknowledgment; none of
\* the parts of a compound that does not decode is handled; and what was
\* still to handle after it stays to be handled.
C22_UndecodedMessageDropped ==
    [][ (work # <<>> /\ Head(work).task = "handleMessage" /\ Undecoded(Head(work).buf)) =>
            /\ work' = Tail(work)
            /\ UNCHANGED <<networkClock, tableClock, storeVars, written, last,
                           queueVars, ackVars>>
      ]_vars

\* A compound whose first part does not decode and whose second part, a
\* table event, was applied.
C22_Witness ==
    /\ work = <<>>
    /\ received.mType = "Compound"
    /\ received.data.ok
    /\ Len(received.data.v) = 2
    /\ Undecoded(received.data.v[1])
    /\ received.data.v[2].mType = "TableEvent"
    /\ entries # EmptyMap
    /\ last.op = "handleTableEvent"

\* C23: on a bulk sync, handleMessage(payload, true) comes first and the
\* decision about the reply after it: until the payload is handled nothing
\* is sent and no acknowledgment is touched; then a bulk sync of the node's
\* own (not unsolicited) is sent to the sender if and only if the message
\* received was unsolicited.
C23_PayloadThenReplyIffUnsolicited ==
    [][ /\ Handling("BulkSync") =>
            LET bsm == Head(work).buf.data.v
            IN  /\ Len(work') = Len(work) + 1
                /\ work'[1] = [task |-> "handleMessage", buf |-> bsm.Payload,
                               isBulkSync |-> TRUE]
                /\ work'[2].task = "reply"
                /\ work'[2].buf.data.v = bsm
                /\ UNCHANGED ackVars
        /\ (work # <<>> /\ Head(work).task = "reply") =>
            LET bsm == Head(work).buf.data.v
            IN  /\ work' = Tail(work)
                /\ bsm.Unsolicited =>
                      sent' = Append(sent, [networks |-> bsm.Networks,
                                            node |-> bsm.NodeName,
                                            unsolicited |-> FALSE])
                /\ ~bsm.Unsolicited => sent' = sent
        /\ sent' # sent => (work # <<>> /\ Head(work).task = "reply")
      ]_vars

\* An unsolicited bulk sync was handled: an entry of its payload is stored,
\* handled as bulk sync, and the reply is sent.
C23_Witness ==
    /\ work = <<>>
    /\ received.mType = "BulkSync"
    /\ received.data.ok
    /\ received.data.v.Unsolicited
    /\ entries # EmptyMap
    /\ last.op = "handleTableEvent"
    /\ last.isBulkSync
    /\ Len(sent) = 1

\* C27: a node event or a network event that NotifyMsg received is encoded
\* again and queued on its broadcast queue if and only if its handler
\* returned true (the queue is left as it was otherwise, and the other
\* queues in both cases); and a table event of a buffer NotifyMsg received
\* that is no bulk sync is handled with isBulkSync false.
C27_QueuedIffHandlerReturnedTrue ==
    [][ /\ Handling("NodeEvent") =>
            LET nEvent == Head(work).buf.data.v
                item == [msg |-> [mType |-> "NodeEvent", data |-> Encoded(nEvent)]]
            IN  /\ last'.ret = CallNodeEvent(nEvent).out.ret
                /\ last'.ret =>
                      /\ nodeBroadcasts' # <<>>
                      /\ nodeBroadcasts'[Len(nodeBroadcasts')] = item
                /\ ~last'.ret => nodeBroadcasts' = nodeBroadcasts
                /\ UNCHANGED <<networkBroadcasts, tableRebroadcasts>>
        /\ Handling("NetworkEvent") =>
            LET nEvent == Head(work).buf.data.v
                item == [msg |-> [mType |-> "NetworkEvent", data |-> Encoded(nEvent)],
                         id |-> nEvent.NetworkID, node |-> nEvent.NodeName]
            IN  /\ last'.ret = CallNetworkEvent(nEvent).out.ret
                /\ last'.ret =>
                      /\ networkBroadcasts' # <<>>
                      /\ networkBroadcasts'[Len(networkBroadcasts')] = item
                /\ ~last'.ret => networkBroadcasts' = networkBroadcasts
                /\ UNCHANGED <<nodeBroadcasts, tableRebroadcasts>>
        /\ (Handling("TableEvent") /\ received.mType # "BulkSync") =>
            /\ ~Head(work).isBulkSync
            /\ Head(work).buf.data.v.NodeName # LocalNode =>
                  last'.op = "handleTableEvent" /\ ~last'.isBulkSync
      ]_vars

\* NotifyMsg received the leave of node A, alive until then: the handler
\* returned true and the event, encoded again, is the node queue's item.
C27_Witness ==
    /\ work = <<>>
    /\ received.mType = "NodeEvent"
    /\ received.data.ok
    /\ last.op = "handleNodeEvent"
    /\ last.ret
    /\ nodeBroadcasts = <<[msg |-> received]>>
    /\ networkBroadcasts = <<>>

(* ------------------------------------------------------------------------
   Claims about the result and the stored entry of handleTableEvent.
   ------------------------------------------------------------------------ *)

\* C28: a Create or an Update that is accepted, and an accepted Delete of an
\* entry that was already stored, make handleTableEvent return the inSync
\* flag of the network as the node holds it, whether a WatchEvent is written
\* or not (none is for a Delete of an entry already marked for deletion).
C28_HandledEventReturnsInSync ==
    \A tEvent \in TableEvents, isBulkSync \in BOOLEAN :
        LET out == CallTableEvent(tEvent, isBulkSync).out
        IN  (/\ out.applied
             /\ tEvent.Type \in {"Create", "Update"} \/ out.entryPresent)
            => /\ tEvent.NetworkID \in DOMAIN thisNodeNetworks
               /\ out.ret = thisNodeNetworks[tEvent.NetworkID].inSync

\* An accepted Delete of an entry already marked for deletion: no WatchEvent
\* was written and the call returned true, the network being in sync.
C28_Witness ==
    /\ last.op = "handleTableEvent"
    /\ last.applied
    /\ last.entryPresent
    /\ written = <<>>
    /\ last.ret
    /\ \E k \in DOMAIN entries :
          entries[k].deleting /\ thisNodeNetworks[k[1]].inSync

\* C29: every stored entry that is marked for deletion has a reap time above
\* zero; a Delete that carries no residual reap time is accepted exactly when
\* the same Delete with one is, and is stored with the configured entry reap
\* interval.
C29_TombstoneHasReapTime ==
    /\ \A k \in DOMAIN entries : entries[k].deleting => entries[k].reapTime > 0
    /\ \A tEvent \in TableEvents, isBulkSync \in BOOLEAN :
          (tEvent.Type = "Delete" /\ tEvent.ResidualReapTime = 0) =>
              LET out == CallTableEvent(tEvent, isBulkSync).out
                  withResidual == [tEvent EXCEPT !.ResidualReapTime = 1]
              IN  /\ out.applied = CallTableEvent(withResidual, isBulkSync).out.applied
                  /\ out.applied =>
                        /\ out.entries[EventKey(tEvent)].deleting
                        /\ out.entries[EventKey(tEvent)].reapTime = ReapEntryInterval

\* A Delete without a residual reap time was accepted: the entry is stored
\* marked for deletion with the configured interval, which no event carries.
C29_Witness ==
    /\ last.op = "handleTableEvent"
    /\ last.applied
    /\ ReapEntryInterval \notin ResidualReapTimes
    /\ \E k \in DOMAIN entries :
          entries[k].deleting /\ entries[k].reapTime = ReapEntryInterval

(* ------------------------------------------------------------------------
   Table events received one after the other, as gossip and in bulk syncs,
   and the table rebroadcast queue of the network.
   ------------------------------------------------------------------------ *)

\* The keys of the entries node A creates and deletes: one more than
\* maxQueueLenBroadcastOnSync, so that the queue gets over the threshold.
QueueKeys == {"k1", "k2"}

QueueTableEvents ==
    [LTime : LTimes, NodeName : {"A"}, NetworkID : {"N1"}, TableName : {"T1"},
     Key : QueueKeys, Value : {"v1"}, Type : {"Create", "Delete"},
     ResidualReapTime : {0}]

\* A table event as gossip, and as the payload of the response to a bulk sync.
QueueGossipBufs == {encodeRawMessage("TableEvent", Encoded(e)) : e \in QueueTableEvents}

QueueBulkSyncBufs ==
    {encodeRawMessage("BulkSync",
                      Encoded([LTime |-> 0, Unsolicited |-> FALSE, NodeName |-> "A",
                               Networks |-> <<"N1">>, Payload |-> buf])) :
        buf \in QueueGossipBufs}

\* NotifyMsg, once the buffer before is handled to its end.
ReceiveTableMessage ==
    /\ work = <<>>
    /\ \E buf \in QueueGossipBufs \cup QueueBulkSyncBufs : NotifyMsg(buf)
    /\ UNCHANGED <<networkClock, tableClock, storeVars, written, last>>
    /\ UNCHANGED <<queueVars, ackVars>>
    /\ MessageFrame

NextQueue ==
    \/ ReceiveTableMessage
    \/ HandleTableMessage /\ MessageFrame
    \/ HandleBulkSync /\ MessageFrame
    \/ BulkSyncReply /\ MessageFrame

SpecQueue == InitMessage /\ [][NextQueue]_vars

\* The item handleTableMessage queues for the event.
TableItem(tEvent) ==
    [msg |-> [mType |-> "TableEvent", data |-> Encoded(tEvent)],
     id |-> tEvent.NetworkID, tname |-> tEvent.TableName, key |-> tEvent.Key]

\* The item is the last of the queue.
QueuedLast(q, item) == q # <<>> /\ q[Len(q)] = item

\* C25: a table event received in a bulk sync while the table rebroadcast
\* queue of its network holds more items than maxQueueLenBroadcastOnSync is
\* applied as the handler decides but not queued, the queue staying as it
\* was; up to the threshold it is queued when the handler returns true; and
\* a table event received as gossip is queued when the handler returns true
\* however many items the queue holds.
C25_BulkSyncRebroadcastLimited ==
    [][ Handling("TableEvent") =>
            LET tEvent == Head(work).buf.data.v
                isBulkSync == Head(work).isBulkSync
                q == IF tEvent.NetworkID \in DOMAIN tableRebroadcasts
                     THEN tableRebroadcasts[tEvent.NetworkID] ELSE <<>>
                out == CallTableEvent(tEvent, isBulkSync).out
            IN  /\ entries' = out.entries
                /\ (isBulkSync /\ Len(q) > MaxQueueLenBroadcastOnSync) =>
                      tableRebroadcasts' = tableRebroadcasts
                /\ (isBulkSync /\ Len(q) <= MaxQueueLenBroadcastOnSync /\ out.ret) =>
                      QueuedLast(tableRebroadcasts'[tEvent.NetworkID], TableItem(tEvent))
                /\ (~isBulkSync /\ out.ret) =>
                      QueuedLast(tableRebroadcasts'[tEvent.NetworkID], TableItem(tEvent))
      ]_vars

\* A bulk sync brought a table event while the queue held more than the
\* threshold: the handler stored it and returned true, and it is not queued.
C25_Witness ==
    /\ received.mType = "BulkSync"
    /\ work = <<>>
    /\ last.op = "handleTableEvent"
    /\ last.isBulkSync
    /\ last.applied
    /\ last.ret
    /\ LET tEvent == received.data.v.Payload.data.v
           q == tableRebroadcasts[tEvent.NetworkID]
       IN  /\ entries[EventKey(tEvent)].ltime = tEvent.LTime
           /\ Len(q) > MaxQueueLenBroadcastOnSync
           /\ \A i \in 1..Len(q) : q[i] # TableItem(tEvent)

(* ------------------------------------------------------------------------
   A bulk sync the node starts, the wait for its response, and the bulk
   syncs the peer sends in response.
   ------------------------------------------------------------------------ *)

\* The bulk syncs the node starts.
MaxSyncs == 2

\* The peer the node syncs with.
SyncPeer == "A"

\* The responses of the peer: bulk syncs that are not unsolicited, carrying
\* one table event.
ResponseBufs ==
    {encodeRawMessage("BulkSync",
                      Encoded([LTime |-> t, Unsolicited |-> FALSE, NodeName |-> SyncPeer,
                               Networks |-> <<"N1">>, Payload |-> buf])) :
        t \in {0, MaxLTime}, buf \in TableEventBufs}

\* The pending-ack map without the entry of the node.
WithoutAck(tbl, name) == [n \in DOMAIN tbl \ {name} |-> tbl[n]]

\* bulkSyncNode(networks, node, true) up to its wait: a new acknowledgment
\* channel is registered for the peer, the bulk sync is sent, and the caller
\* waits for the channel to be closed or for its timeout.
StartBulkSync ==
    /\ wait.pc # "waiting"
    /\ Len(sent) < MaxSyncs
    /\ LET ch == Len(sent) + 1
       IN  /\ bulkSyncAckTbl' = MapPut(bulkSyncAckTbl, SyncPeer, ch)
           /\ sent' = Append(sent, [networks |-> <<"N1">>, node |-> SyncPeer,
                                    unsolicited |-> TRUE])
           /\ wait' = [pc |-> "waiting", node |-> SyncPeer, ch |-> ch]
    /\ UNCHANGED <<networkClock, tableClock, storeVars, written, last>>
    /\ UNCHANGED <<work, received, queueVars, closed>>
    /\ MessageFrame

\* The wait ends because the channel was closed, or because the caller's
\* timeout expired; the entry of the peer is removed in both cases.
WaitAcked ==
    /\ wait.pc = "waiting"
    /\ wait.ch \in closed
    /\ wait' = [wait EXCEPT !.pc = "acked"]
    /\ bulkSyncAckTbl' = WithoutAck(bulkSyncAckTbl, wait.node)
    /\ UNCHANGED <<networkClock, tableClock, storeVars, written, last>>
    /\ UNCHANGED <<work, received, queueVars, closed, sent>>
    /\ MessageFrame

WaitTimedOut ==
    /\ wait.pc = "waiting"
    /\ wait' = [wait EXCEPT !.pc = "timedout"]
    /\ bulkSyncAckTbl' = WithoutAck(bulkSyncAckTbl, wait.node)
    /\ UNCHANGED <<networkClock, tableClock, storeVars, written, last>>
    /\ UNCHANGED <<work, received, queueVars, closed, sent>>
    /\ MessageFrame

\* NotifyMsg with a response of the peer, asked for or not, once the buffer
\* before is handled to its end.
ReceiveResponse ==
    /\ work = <<>>
    /\ \E buf \in ResponseBufs : NotifyMsg(buf)
    /\ UNCHANGED <<networkClock, tableClock, storeVars, written, last>>
    /\ UNCHANGED <<queueVars, ackVars>>
    /\ MessageFrame

NextBulkWait ==
    \/ StartBulkSync
    \/ WaitAcked
    \/ WaitTimedOut
    \/ ReceiveResponse
    \/ HandleBulkSync /\ MessageFrame
    \/ HandleTableMessage /\ MessageFrame
    \/ BulkSyncReply /\ MessageFrame

\* The caller's timer runs while it waits: the timeout is not put off for
\* ever.
SpecBulkWait == InitMessage /\ [][NextBulkWait]_vars /\ WF_vars(WaitTimedOut)

\* C24: the wait of a node that started a bulk sync always ends, with the
\* acknowledgment channel closed by the response or with the timeout, and
\* after either the pending-ack map has no entry for the peer; the response
\* itself, handled while the entry is there, closes the channel and deletes
\* the entry.
C24_BulkSyncWaitEnds ==
    /\ [](wait.pc \in {"acked", "timedout"} => wait.node \notin DOMAIN bulkSyncAckTbl)
    /\ [](wait.pc = "acked" => wait.ch \in closed)
    /\ [][ (/\ work # <<>>
            /\ work' = Tail(work)
            /\ Head(work).task = "reply"
            /\ ~Head(work).buf.data.v.Unsolicited
            /\ Head(work).buf.data.v.NodeName \in DOMAIN bulkSyncAckTbl) =>
               LET name == Head(work).buf.data.v.NodeName
               IN  /\ bulkSyncAckTbl[name] \in closed'
                   /\ name \notin DOMAIN bulkSyncAckTbl'
                   /\ sent' = sent
         ]_vars
    /\ (wait.pc = "waiting") ~> (wait.pc \in {"acked", "timedout"})

\* The response to the node's bulk sync was handled, payload first: the
\* channel is closed, the wait over and the entry of the peer gone.
C24_Witness ==
    /\ wait.pc = "acked"
    /\ wait.node = SyncPeer
    /\ wait.ch \in closed
    /\ SyncPeer \notin DOMAIN bulkSyncAckTbl
    /\ received \in ResponseBufs
    /\ work = <<>>

(* ------------------------------------------------------------------------
   Table events, the passing of time and the reaper's sweep over the
   entries marked for deletion.
   ------------------------------------------------------------------------ *)

\* The table events of node A.
ReapTableEvents == {tEvent \in GossipTableEvents : tEvent.NodeName = "A"}

\* The entry is marked for deletion and its reap time has run out.
Reapable(e) == e.deleting /\ e.reapTime = 0

\* A unit of time passes: the reap time left to every entry marked for
\* deletion goes down by one, not below zero.
Tick ==
    /\ \E k \in DOMAIN entries : entries[k].deleting /\ entries[k].reapTime > 0
    /\ entries' = [k \in DOMAIN entries |->
                     IF entries[k].deleting /\ entries[k].reapTime > 0
                     THEN [entries[k] EXCEPT !.reapTime = @ - 1]
                     ELSE entries[k]]
    /\ UNCHANGED <<networkClock, tableClock, nodes, networks, thisNodeNetworks,
                   networkNodes, written, last>>
    /\ UNCHANGED <<histVars, concVars, scenVars, syncVars, msgVars>>

\* The reaper's sweep: the entries whose reap time has run out are removed.
ReapTableEntries ==
    /\ \E k \in DOMAIN entries : Reapable(entries[k])
    /\ entries' = [k \in {x \in DOMAIN entries : ~Reapable(entries[x])} |-> entries[k]]
    /\ UNCHANGED <<networkClock, tableClock, nodes, networks, thisNodeNetworks,
                   networkNodes, written, last>>
    /\ UNCHANGED <<histVars, concVars, scenVars, syncVars, msgVars>>

NextReap ==
    \/ \E tEvent \in ReapTableEvents, isBulkSync \in BOOLEAN :
          DeliverTableEvent(tEvent, isBulkSync)
    \/ Tick
    \/ ReapTableEntries

\* Time does not stand still and the reaper runs on its periodic schedule.
SpecReap ==
    InitMessage /\ [][NextReap]_vars /\ WF_vars(Tick) /\ WF_vars(ReapTableEntries)

\* The entry of the key is marked for deletion, with this Lamport time.
Tombstone(k, t) ==
    k \in DOMAIN entries /\ entries[k].deleting /\ entries[k].ltime = t

\* C30: an entry is removed only when it is marked for deletion and its reap
\* time has run out; a reap time runs out only by time passing, no event
\* stores an entry marked for deletion with none left; and every entry
\* marked for deletion is in the end removed, unless an event with a newer
\* Lamport time replaces it first.
C30_ReapedAtDeadlineOnly ==
    /\ [][ \A k \in DOMAIN entries :
              /\ k \notin DOMAIN entries' =>
                    entries[k].deleting /\ entries[k].reapTime = 0
              /\ (k \in DOMAIN entries' /\ entries'[k].deleting
                  /\ entries'[k].reapTime = 0) =>
                    /\ entries[k].deleting
                    /\ entries[k].ltime = entries'[k].ltime
                    /\ entries[k].reapTime <= 1
         ]_vars
    /\ \A k \in EntryKeys, t \in LTimes : Tombstone(k, t) ~> ~Tombstone(k, t)

\* The reaper removed an entry: the last event handled was applied, so the
\* entry was stored, marked for deletion then or later, and nothing is
\* stored any more.
C30_Witness ==
    /\ entries = EmptyMap
    /\ last.op = "handleTableEvent"
    /\ last.applied
    /\ written = <<>>
    /\ tableClock > 0

(* ------------- network events in any order of delivery ------------------ *)

\* Two network events are about the same (node, network) pair.
SamePair(a, b) == a.NodeName = b.NodeName /\ a.NetworkID = b.NetworkID

\* The deliveries so far about the pair of nEvent, in order of delivery.
DeliveredFor(nEvent) == SelectSeq(deliveries, LAMBDA d : SamePair(d, nEvent))

\* A network event about a remote pair reaches handleNetworkEvent
\* (delegate.go:336), in any order of the times: no earlier delivery about
\* the pair carried its time.
DeliverOnce(nEvent) ==
    /\ nEvent.NodeName # LocalNode
    /\ \A i \in DOMAIN deliveries :
          SamePair(deliveries[i], nEvent) => deliveries[i].LTime # nEvent.LTime
    /\ HandleNetworkEventStep(nEvent)
    /\ deliveries' = Append(deliveries, nEvent)
    /\ heard' = nEvent
    /\ UNCHANGED <<maxDelivered, topAdmitted, concVars, scenVars,
                   localStateVars, mergeVars, msgVars>>

NextOrder == \E nEvent \in NetworkEvents : DeliverOnce(nEvent)

SpecOrder == InitMember /\ [][NextOrder]_vars

\* The remote (node, network) pairs.
PairsOfRemoteNodes == [NodeName : RemoteNodes, NetworkID : NetworkIDs]

\* The delivery of the greatest time in a non-empty sequence of deliveries.
TopDelivery(ds) ==
    ds[CHOOSE i \in DOMAIN ds : \A j \in DOMAIN ds : ds[j].LTime <= ds[i].LTime]

\* A Join was delivered before the delivery of the greatest time.
JoinBeforeTop(ds) ==
    \E i, j \in DOMAIN ds : i < j /\ ds[i].Type = "Join" /\ ds[j] = TopDelivery(ds)

\* The record of pair p is that of the delivery of the greatest time.
RecordIsTop(p, ds) ==
    /\ PairRecord(p).ltime = TopDelivery(ds).LTime
    /\ PairRecord(p).leaving = (TopDelivery(ds).Type = "Leave")

(* ---- C31 ---- *)

\* C31, as stated: whatever the order in which network events of distinct
\* times about one remote pair of a node in nDB.nodes were delivered, the
\* record stored for the pair carries the greatest delivered time and the
\* leaving flag of the event of that time.
C31_RecordIsMaxDelivered ==
    \A p \in PairsOfRemoteNodes :
        (InNodes(nodes, p.NodeName) /\ DeliveredFor(p) # <<>> /\ PairKnown(p))
            => RecordIsTop(p, DeliveredFor(p))

\* C31, amended: the same in every order of delivery in which the event of
\* the greatest time is a Join or is delivered after a Join; the pair then
\* has a record, with the greatest delivered time and the leaving flag of
\* the event of that time.
C31_RecordIsMaxDeliveredAfterJoin ==
    \A p \in PairsOfRemoteNodes :
        LET ds == DeliveredFor(p)
        IN  (/\ InNodes(nodes, p.NodeName)
             /\ ds # <<>>
             /\ TopDelivery(ds).Type = "Join" \/ JoinBeforeTop(ds))
                => PairKnown(p) /\ RecordIsTop(p, ds)

\* C31 witness: the events about a pair were delivered against the order of
\* their times, the later one dropped as stale, and the record is that of the
\* greatest time.
C31_Witness ==
    \E p \in PairsOfRemoteNodes :
        LET ds == DeliveredFor(p)
        IN  /\ InNodes(nodes, p.NodeName)
            /\ Len(ds) > 1
            /\ ds[1] = TopDelivery(ds)
            /\ SamePair(heard, p) /\ heard.Type = "Leave"
            /\ last.op = "handleNetworkEvent" /\ ~last.applied
            /\ PairKnown(p) /\ RecordIsTop(p, ds) /\ ~PairRecord(p).leaving

(* ------------- MergeRemoteState, from the buffer (delegate.go:471) ------ *)

\* The envelope types a push-pull buffer may arrive under: the right one and
\* a wrong one.
MergeEnvelopeTypes == {"PushPull", "NetworkEvent"}

\* The buffers MergeRemoteState may be given: empty, one proto.Unmarshal
\* fails on, an envelope whose payload does not decode, and the encoding of a
\* NetworkPushPull under the right or a wrong envelope type.
MergeBufs ==
    {EmptyBuf, BadBuf}
    \cup {encodeRawMessage("PushPull", Undecodable)}
    \cup {encodeRawMessage(t, Encoded(p)) : t \in MergeEnvelopeTypes, p \in PushPulls}

\* delegate.go:471-492: the payload the call goes on with, or none when it
\* returns early: on an empty buffer (472-475), on an envelope that does not
\* unmarshal (477-482) and on a payload that does not (488-492). A type other
\* than MessageTypePushPull is logged (484-486) and the call goes on.
PushPullOf(buf) ==
    IF buf.mType = "empty" THEN NoPushPull
    ELSE IF decodeMessage(buf).err THEN NoPushPull
    ELSE IF ~decodeMessage(buf).data.ok THEN NoPushPull
    ELSE decodeMessage(buf).data.v

\* delegate.go:471-492: MergeRemoteState(buf, isJoin) up to the decoded
\* payload.
MergeRemoteState(buf) ==
    /\ ~Merging
    /\ received' = buf
    /\ merging' = PushPullOf(buf)
    /\ mergeAt' = 0
    /\ UNCHANGED <<networkClock, tableClock, storeVars, written, last>>
    /\ UNCHANGED <<histVars, concVars, scenVars, localStateVars, heard>>
    /\ UNCHANGED <<work, queueVars, ackVars>>

\* MergeRemoteState calls: the ones that return early, and one that goes on.
NextMergeBuf ==
    \/ \E buf \in MergeBufs : MergeRemoteState(buf)
    \/ MergeNodeEvent
    \/ MergeNetworkEvent

SpecMergeBuf == InitMerge /\ [][NextMergeBuf]_vars

\* The buffer is empty, or does not decode, or its envelope type is not
\* PushPull.
NotAPushPull(buf) ==
    IF buf.mType \in {"empty", "undecodable"} THEN TRUE
    ELSE buf.mType # "PushPull" \/ ~buf.data.ok

(* ---- C32 ---- *)

\* C32, as stated: no step of a MergeRemoteState call whose buffer is empty,
\* fails to decode or has an envelope type other than PushPull changes the
\* node maps, the network records, the member sets or the clocks.
C32_NotAPushPullDropped ==
    [][(received' # NoBuf /\ NotAPushPull(received'))
          => UNCHANGED <<networkClock, tableClock, storeVars>>]_vars

(* ---- C33 ---- *)

\* nodeName is in the member set nDB.networkNodes keeps for network nid.
InNetworkNodes(nid, nodeName) == nodeName \in NetworkNodesOf(networkNodes, nid)

\* C33: in every state reached by node and network events, a remote node is
\* in a network's member set exactly when nDB.networks holds a record of the
\* pair that is not marked leaving.
C33_MemberIffRecordNotLeaving ==
    \A p \in PairsOfRemoteNodes :
        InNetworkNodes(p.NetworkID, p.NodeName) <=> (PairKnown(p) /\ ~PairRecord(p).leaving)

\* C33 witness: a Leave was applied to the record of a pair that had joined:
\* the record stays, marked leaving, and the node is out of the member set,
\* in which the local node remains.
C33_Witness ==
    \E p \in PairsOfRemoteNodes :
        /\ last.op = "handleNetworkEvent" /\ last.applied /\ last.entryPresent
        /\ SamePair(heard, p)
        /\ PairKnown(p) /\ PairRecord(p).leaving
        /\ ~InNetworkNodes(p.NetworkID, p.NodeName)
        /\ InNetworkNodes(p.NetworkID, LocalNode)

(* ---- C34 ---- *)

\* C34: in every state, a handleNetworkEvent call given a Leave that it
\* accepts (a fresh Leave for a pair it has a record of) leaves no live entry
\* of that network owned by that node in the store, and leaves the entries of
\* other owners as they were.
C34_AcceptedLeaveDeletesOwnedEntries ==
    \A nEvent \in NetworkEvents :
        LET r == CallNetworkEvent(nEvent)
        IN  (nEvent.Type = "Leave" /\ r.out.ret)
                => /\ PairKnown(nEvent)
                   /\ OwnedLive(r.out.entries, nEvent.NetworkID, nEvent.NodeName) = {}
                   /\ DOMAIN r.out.entries = DOMAIN entries
                   /\ \A k \in DOMAIN entries :
                         entries[k].node # nEvent.NodeName => r.out.entries[k] = entries[k]

\* C34 witness: a Leave of a pair was accepted while the store held a live
\* entry of the leaving node in that network: the entry is now a tombstone,
\* its deletion was written to the watchers, and the pair is marked leaving.
C34_Witness ==
    \E p \in PairsOfRemoteNodes :
        /\ last.op = "handleNetworkEvent" /\ last.applied /\ last.entryPresent
        /\ PairKnown(p) /\ PairRecord(p).leaving
        /\ written # <<>>
        /\ written[1].NetworkID = p.NetworkID /\ written[1].Value = Nil
        /\ \E k \in DOMAIN entries :
              /\ k[1] = p.NetworkID /\ entries[k].node = p.NodeName
              /\ entries[k].deleting
        /\ OwnedLive(entries, p.NetworkID, p.NodeName) = {}

(* ---- C35 ---- *)

\* C35: every step of handleTableMessage on a table event whose NodeName is
\* the local node leaves the entries, the clocks and the rest of the store
\* unchanged, writes nothing to the watchers, calls no handler and queues
\* nothing on any broadcast queue.
C35_OwnTableMessageIgnored ==
    [][(/\ AtMessage("TableEvent")
        /\ Head(work).buf.data.v.NodeName = LocalNode
        /\ work' = Tail(work))
          => UNCHANGED <<networkClock, tableClock, storeVars, written, last, queueVars>>]_vars

\* C35 witness: a compound of a table event of node A and a newer one of the
\* local node for the same key was handled to its end: the entry is the one
\* of A, and the queue holds at most the event of A.
C35_Witness ==
    /\ work = <<>>
    /\ received.mType = "Compound"
    /\ received.data.ok
    /\ Len(received.data.v) = 2
    /\ received.data.v[1] \in TableEventBufs
    /\ received.data.v[1].data.v.NodeName = "A"
    /\ received.data.v[2] = encodeRawMessage("TableEvent", Encoded(LocalTableEvent))
    /\ last.op = "handleTableEvent" /\ last.applied
    /\ \A k \in DOMAIN entries : entries[k].node = "A" /\ entries[k].ltime < LocalTableEvent.LTime
    /\ entries # EmptyMap
    /\ \A i \in DOMAIN TableQueueOf(tableRebroadcasts, "N1") :
          TableQueueOf(tableRebroadcasts, "N1")[i].msg # received.data.v[2]

(* ------- handleTableMessage in steps, with a local leave (265-306) ------ *)

\* leaveNetwork, the driver's entry point: under nDB.Lock() the local record
\* of the network is marked leaving, at a new time of the network clock.
LeaveNetwork(nid) ==
    /\ nid \in DOMAIN thisNodeNetworks
    /\ ~thisNodeNetworks[nid].leaving
    /\ networkClock' = networkClock + 1
    /\ thisNodeNetworks' = [thisNodeNetworks EXCEPT ![nid].leaving = TRUE,
                                                    ![nid].ltime = networkClock + 1]
    /\ UNCHANGED <<tableClock, nodes, networks, networkNodes, entries, written, last>>
    /\ UNCHANGED <<histVars, concVars, scenVars, syncVars, msgVars>>

\* The reaper: a network the local node is leaving is removed from
\* nDB.thisNodeNetworks.
ReapLocalNetwork(nid) ==
    /\ nid \in DOMAIN thisNodeNetworks
    /\ thisNodeNetworks[nid].leaving
    /\ thisNodeNetworks' = [n \in DOMAIN thisNodeNetworks \ {nid} |-> thisNodeNetworks[n]]
    /\ UNCHANGED <<networkClock, tableClock, nodes, networks, networkNodes, entries,
                   written, last>>
    /\ UNCHANGED <<histVars, concVars, scenVars, syncVars, msgVars>>

\* delegate.go:265-283: the event is unmarshalled, one of the node's own is
\* ignored, handleTableEvent runs under nDB.Lock(), and the call returns
\* unless the handler asked for a rebroadcast.
TableMessageHandled(tEvent, isBulkSync) ==
    /\ tm.pc = "idle"
    /\ ~FromThisNode(tEvent)
    /\ HandleTableEventStep(tEvent, isBulkSync)
    /\ LET rebroadcast == CallTableEvent(tEvent, isBulkSync).out.ret
       IN  tm' = [pc |-> IF rebroadcast THEN "handled" ELSE "idle",
                  tEvent |-> tEvent, isBulkSync |-> isBulkSync,
                  rebroadcast |-> rebroadcast, ok |-> FALSE, leaving |-> FALSE]
    /\ UNCHANGED <<phase, scen>>
    /\ UNCHANGED <<histVars, concVars, syncVars, msgVars>>

\* delegate.go:285-287: n, ok := nDB.thisNodeNetworks[tEvent.NetworkID], read
\* under nDB.RLock().
TableMessageReRead ==
    /\ tm.pc = "handled"
    /\ LET nid == tm.tEvent.NetworkID
           ok == nid \in DOMAIN thisNodeNetworks
       IN  tm' = [tm EXCEPT !.pc = "read", !.ok = ok,
                            !.leaving = ok /\ thisNodeNetworks[nid].leaving]
    /\ UNCHANGED <<networkClock, tableClock, storeVars, written, last>>
    /\ UNCHANGED <<phase, scen>>
    /\ UNCHANGED <<histVars, concVars, syncVars, msgVars>>

\* The values n.leaving may be read as at line 290, the lock released: the
\* value at the re-read or, through the pointer, the value the record has
\* now (a record the reaper removed was leaving).
LeavingRead ==
    LET nid == tm.tEvent.NetworkID
    IN  {tm.leaving} \cup
        (IF nid \in DOMAIN thisNodeNetworks THEN {thisNodeNetworks[nid].leaving} ELSE {TRUE})

\* Variant of LeftOrLeaving: the re-read is not looked at.
LeftOrLeavingNever(ok, leaving) == FALSE

\* delegate.go:289-292: "if the network is not there anymore, OR we are
\* leaving the network"
LeftOrLeaving(ok, leaving) == ~ok \/ leaving

\* delegate.go:289-297: the call returns when the network is gone or being
\* left, or when the queue is over the threshold for a bulk-synced event.
TableMessageChecked ==
    /\ tm.pc = "read"
    /\ \E leaving \in LeavingRead :
          tm' = [tm EXCEPT !.pc =
                    IF LeftOrLeaving(tm.ok, leaving) THEN "idle"
                    ELSE IF OverThreshold(tm.isBulkSync,
                                          TableQueueOf(tableRebroadcasts, tm.tEvent.NetworkID))
                    THEN "idle"
                    ELSE "checked"]
    /\ UNCHANGED <<networkClock, tableClock, storeVars, written, last>>
    /\ UNCHANGED <<phase, scen>>
    /\ UNCHANGED <<histVars, concVars, syncVars, msgVars>>

\* delegate.go:299-304: n.tableRebroadcasts.QueueBroadcast, no lock of nDB
\* held.
TableMessageQueued ==
    /\ tm.pc = "checked"
    /\ tableRebroadcasts' =
          MapPut(tableRebroadcasts, tm.tEvent.NetworkID,
                 QueueBroadcast(TableQueueOf(tableRebroadcasts, tm.tEvent.NetworkID),
                                TableItem(tm.tEvent)))
    /\ tm' = [tm EXCEPT !.pc = "idle"]
    /\ UNCHANGED <<networkClock, tableClock, storeVars, written, last>>
    /\ UNCHANGED <<phase, scen>>
    /\ UNCHANGED <<histVars, concVars, syncVars>>
    /\ UNCHANGED <<work, received, nodeBroadcasts, networkBroadcasts, ackVars>>

\* Table messages handled one after the other while the driver leaves the
\* network and the reaper removes it.
NextLeave ==
    \/ \E tEvent \in QueueTableEvents, isBulkSync \in BOOLEAN :
          TableMessageHandled(tEvent, isBulkSync)
    \/ TableMessageReRead
    \/ TableMessageChecked
    \/ TableMessageQueued
    \/ \E nid \in NetworkIDs : LeaveNetwork(nid)
    \/ \E nid \in NetworkIDs : ReapLocalNetwork(nid)

SpecLeave == InitMessage /\ [][NextLeave]_vars

\* The local node belongs to the network and is not leaving it.
MemberNotLeaving(nid) ==
    nid \in DOMAIN thisNodeNetworks /\ ~thisNodeNetworks[nid].leaving

(* ---- C36 ---- *)

\* C36, as stated: whenever handleTableMessage queues a rebroadcast, the
\* local node belongs to the event's network and is not leaving it.
C36_QueuedOnlyWhileMember ==
    [][(tm.pc = "checked" /\ tm'.pc = "idle") => MemberNotLeaving(tm.tEvent.NetworkID)]_vars

\* C36, amended: whenever handleTableMessage queues a rebroadcast, the local
\* node belonged to the event's network and was not leaving it when the
\* memberships were re-read after the handler; and a call that found the
\* network gone or being left at the re-read returns with the queues as they
\* were.
C36_QueuedOnlyIfMemberAtReRead ==
    /\ [][(tm.pc = "checked" /\ tm'.pc = "idle") => (tm.ok /\ ~tm.leaving)]_vars
    /\ [][tableRebroadcasts' # tableRebroadcasts => (tm.pc = "checked" /\ tm'.pc = "idle")]_vars
    /\ [][(tm.pc = "handled" /\ ~MemberNotLeaving(tm.tEvent.NetworkID) /\ tm'.pc = "read")
             => (~tm'.ok \/ tm'.leaving)]_vars
    /\ [][(tm.pc = "read" /\ (~tm.ok \/ tm.leaving) /\ tm'.pc # "read")
             => (tm'.pc = "idle" /\ UNCHANGED queueVars)]_vars

\* C36 witness: the handler stored an event and asked for its rebroadcast,
\* the network was then marked leaving, and the call returned after the
\* re-read with nothing queued.
C36_Witness ==
    /\ tm.pc = "idle" /\ tm.rebroadcast
    /\ tm.ok /\ tm.leaving
    /\ last.op = "handleTableEvent" /\ last.applied /\ last.ret
    /\ entries # EmptyMap
    /\ TableQueueOf(tableRebroadcasts, tm.tEvent.NetworkID) = <<>>

(* ------------- the bulk-sync exchange with a peer (352-388) ------------- *)

\* The BulkSyncMessage the peer receives for a bulkSyncNode call of the local
\* node: the call's unsolicited argument is the message's Unsolicited field.
AsReceived(m) ==
    [LTime |-> 0, Unsolicited |-> m.unsolicited, NodeName |-> LocalNode,
     Networks |-> m.networks]

\* Bulk syncs the peer starts on its own.
UnsolicitedBufs ==
    {encodeRawMessage("BulkSync",
                      Encoded([LTime |-> 0, Unsolicited |-> TRUE, NodeName |-> SyncPeer,
                               Networks |-> <<"N1">>, Payload |-> buf])) :
        buf \in TableEventBufs}

\* The peer starts a bulk sync with the local node.
PeerStartsBulkSync ==
    /\ work = <<>>
    /\ Len(sent) < MaxSyncs
    /\ \E buf \in UnsolicitedBufs : NotifyMsg(buf)
    /\ UNCHANGED <<networkClock, tableClock, storeVars, written, last>>
    /\ UNCHANGED <<queueVars, ackVars>>
    /\ MessageFrame

\* The peer, running handleBulkSync on a bulk sync the local node sent it,
\* answers it: its bulkSyncNode(networks, node, false) message arrives.
PeerReplies ==
    /\ work = <<>>
    /\ \E i \in DOMAIN sent :
          /\ sent[i].node = SyncPeer
          /\ RepliesTo(AsReceived(sent[i]))
    /\ \E buf \in ResponseBufs : NotifyMsg(buf)
    /\ UNCHANGED <<networkClock, tableClock, storeVars, written, last>>
    /\ UNCHANGED <<queueVars, ackVars>>
    /\ MessageFrame

NextExchange ==
    \/ StartBulkSync
    \/ WaitAcked
    \/ WaitTimedOut
    \/ PeerStartsBulkSync
    \/ PeerReplies
    \/ HandleBulkSync /\ MessageFrame
    \/ HandleTableMessage /\ MessageFrame
    \/ BulkSyncReply /\ MessageFrame

SpecExchange == InitMessage /\ [][NextExchange]_vars

\* The step is handleBulkSync's decision about the reply.
Replying == work # <<>> /\ Head(work).task = "reply" /\ work' = Tail(work)

(* ---- C37 ---- *)

\* C37: in a bulk-sync exchange with a peer that runs the same handler, a
\* bulk sync is sent in reply only to an unsolicited one, one message for
\* each, marked as not unsolicited; no message so marked is answered by its
\* receiver; and nothing but the start of a bulk sync and that reply sends
\* one.
C37_NoPingPong ==
    /\ [][Replying =>
             LET bsm == Head(work).buf.data.v
             IN  /\ bsm.Unsolicited =>
                       /\ Len(sent') = Len(sent) + 1
                       /\ ~sent'[Len(sent')].unsolicited
                       /\ sent'[Len(sent')].node = bsm.NodeName
                 /\ ~bsm.Unsolicited => sent' = sent]_vars
    /\ [][sent' # sent => (Replying \/ wait'.pc = "waiting")]_vars
    /\ [](\A i \in DOMAIN sent :
             ~sent[i].unsolicited => ~RepliesTo(AsReceived(sent[i])))

\* C37 witness: both directions ran to their end: the local node answered a
\* bulk sync the peer started, and the peer's answer to one the local node
\* started was handled, closing the acknowledgment channel, with nothing sent
\* after it.
C37_Witness ==
    /\ work = <<>>
    /\ received \in ResponseBufs
    /\ Len(sent) = 2
    /\ ~sent[1].unsolicited /\ sent[2].unsolicited
    /\ wait.ch \in closed

(* ------- concurrent responses and the pending-ack map (365-376) --------- *)

\* The handleBulkSync calls that may be under way at once.
MaxHandlers == 2

\* The sequence without its i-th element.
RemoveAt(sq, i) == SubSeq(sq, 1, i - 1) \o SubSeq(sq, i + 1, Len(sq))

\* Responses with nothing to witness (LTime 0) and a payload handleMessage
\* drops: of the peer, and of a node no bulk sync was started with.
BareResponses ==
    [LTime : {0}, Unsolicited : {FALSE}, NodeName : {SyncPeer, "C"},
     Networks : {<<"N1">>}, Payload : {BadBuf}]

\* handleBulkSync (delegate.go:352-363) on such a response, in a goroutine of
\* its own: what is left of the call is the acknowledgment.
ResponseArrives ==
    /\ Len(work) < MaxHandlers
    /\ \E bsm \in BareResponses :
          /\ Dropped(bsm.Payload)
          /\ received' = encodeRawMessage("BulkSync", Encoded(bsm))
          /\ work' = Append(work, ReplyTask(bsm))
    /\ UNCHANGED <<networkClock, tableClock, storeVars, written, last>>
    /\ UNCHANGED <<queueVars, ackVars>>
    /\ MessageFrame

\* delegate.go:366-376: the acknowledgment of one of the calls under way,
\* under nDB.Lock().
AckResponse(i) ==
    /\ i \in DOMAIN work
    /\ work[i].task = "reply"
    /\ ~RepliesTo(work[i].buf.data.v)
    /\ LET ack == AckBulkSync(bulkSyncAckTbl, closed, work[i].buf.data.v.NodeName)
       IN  /\ bulkSyncAckTbl' = ack.tbl
           /\ closed' = ack.closed
    /\ work' = RemoveAt(work, i)
    /\ UNCHANGED <<networkClock, tableClock, storeVars, written, last>>
    /\ UNCHANGED <<received, queueVars, sent, wait>>
    /\ MessageFrame

NextAck ==
    \/ StartBulkSync
    \/ WaitAcked
    \/ WaitTimedOut
    \/ ResponseArrives
    \/ \E i \in 1..MaxHandlers : AckResponse(i)

SpecAck == InitMessage /\ [][NextAck]_vars

\* The step is the acknowledgment of the i-th call under way.
Acking(i) == i \in DOMAIN work /\ work' = RemoveAt(work, i)

(* ---- C38 ---- *)

\* C38: with responses of the peer handled concurrently and the initiator's
\* timeout at any point, a channel registered in the pending-ack map is
\* never a closed one; every close is made by an acknowledgment step, of the
\* channel registered for the sender, not closed before, and unregisters it;
\* and an acknowledgment for a sender with no registration leaves the map
\* and the closed channels as they were.
C38_ChannelClosedOnceWhileRegistered ==
    /\ [](\A name \in DOMAIN bulkSyncAckTbl : bulkSyncAckTbl[name] \notin closed)
    /\ [][closed' # closed =>
             \E i \in DOMAIN work :
                 LET name == work[i].buf.data.v.NodeName
                 IN  /\ Acking(i)
                     /\ name \in DOMAIN bulkSyncAckTbl
                     /\ bulkSyncAckTbl[name] \notin closed
                     /\ closed' = closed \cup {bulkSyncAckTbl[name]}
                     /\ name \notin DOMAIN bulkSyncAckTbl']_vars
    /\ [][\A i \in DOMAIN work :
             (Acking(i) /\ work[i].buf.data.v.NodeName \notin DOMAIN bulkSyncAckTbl)
                 => UNCHANGED <<bulkSyncAckTbl, closed>>]_vars

\* C38 witness: two responses of the peer were under way for one
\* registration; one of them closed the channel and unregistered it while the
\* initiator was still waiting, and the other has its acknowledgment to make.
C38_Witness ==
    /\ wait.pc = "waiting"
    /\ wait.ch \in closed
    /\ wait.node \notin DOMAIN bulkSyncAckTbl
    /\ Len(work) = 1
    /\ work[1].buf.data.v.NodeName = wait.node
    /\ Len(sent) = MaxSyncs

(* ------------- MergeRemoteState beside live gossip (471-515) ------------ *)

\* Push-pull buffers of node A under the right envelope type, with at most
\* one record, its own.
PushPullBufs ==
    {encodeRawMessage("PushPull", Encoded(p)) :
        p \in {q \in PushPulls :
                  /\ q.NodeName = "A"
                  /\ Len(q.Networks) <= 1
                  /\ \A i \in DOMAIN q.Networks : q.Networks[i].NodeName = "A"}}

\* NotifyMsg with a node event or a network event of node A, once the buffer
\* before is handled to its end.
ReceiveGossipEvent ==
    /\ work = <<>>
    /\ \E buf \in NodeEventBufs \cup NetworkEventBufs : NotifyMsg(buf)
    /\ UNCHANGED <<networkClock, tableClock, storeVars, written, last>>
    /\ UNCHANGED <<queueVars, ackVars>>
    /\ MessageFrame

\* A MergeRemoteState call and live gossip, in any order.
NextMergeGossip ==
    \/ \E buf \in PushPullBufs : MergeRemoteState(buf)
    \/ MergeNodeEvent
    \/ MergeNetworkEvent
    \/ ReceiveGossipEvent
    \/ HandleNodeMessage /\ MessageFrame
    \/ HandleNetworkMessage /\ MessageFrame

SpecMergeGossip == InitMerge /\ [][NextMergeGossip]_vars

\* The step belongs to a MergeRemoteState call.
MergeStep == merging' # merging \/ mergeAt' # mergeAt

(* ---- C39 ---- *)

\* C39: no step of a MergeRemoteState call changes the node-event, the
\* network-event or a table broadcast queue, whatever its handlers return;
\* the same events received by NotifyMsg are queued, on the node-event or on
\* the network-event queue, when their handler returns true.
C39_MergeQueuesNothing ==
    /\ [][MergeStep => UNCHANGED queueVars]_vars
    /\ [][(Handling("NodeEvent") /\ work' = Tail(work) /\ last'.ret)
             => QueuedLast(nodeBroadcasts',
                           [msg |-> encodeRawMessage("NodeEvent", Head(work).buf.data)])]_vars
    /\ [][(Handling("NetworkEvent") /\ work' = Tail(work) /\ last'.ret)
             => QueuedLast(networkBroadcasts',
                           [msg |-> encodeRawMessage("NetworkEvent", Head(work).buf.data),
                            id |-> Head(work).buf.data.v.NetworkID,
                            node |-> Head(work).buf.data.v.NodeName])]_vars

\* C39 witness: a merge ran to its end and its last network event was
\* applied, the handler returning true: the record is stored and the
\* broadcast queues are empty.
C39_Witness ==
    /\ Merged
    /\ Len(merging.Networks) > 0
    /\ last.op = "handleNetworkEvent" /\ last.applied /\ last.ret
    /\ networks # EmptyMap
    /\ nodeBroadcasts = <<>>
    /\ networkBroadcasts = <<>>

====
